---------------------------- MODULE Spec2Model ----------------------------
(***************************************************************************)
(* Concentrated-liquidity reconstruction, swap simulation and the analysis *)
(* helpers (backend/src/liquidity_distribution.py, optimized_v4_fetch.py,  *)
(* amm_math.py, tvl.py, v4_historical_slippage.py, capital_efficiency.py,  *)
(* vault_performance.py, migration_detection.py, block_utils.py) as state  *)
(* machines.                                                               *)
(*                                                                         *)
(*   Spec        one call of fetch_liquidity_distribution, one step per    *)
(*               remote call and per loop iteration.                       *)
(*   SpecDecode  the two bitmap decoders over the same words.              *)
(*   SpecSwap    one call of theoretical_v4_slippage, one step per loop    *)
(*               iteration.                                                *)
(*   SpecSwapFair  SpecSwap with the loop scheduled fairly.                *)
(*   SpecPair    two calls of theoretical_v4_slippage on one table.        *)
(*   SpecTvl     calculate_tvl_from_ticks (tvl.py) after the fetch, on     *)
(*               the same chain answers.                                   *)
(*   SpecLive    the fetch and fetch_all_v4_data_sync on a chain that      *)
(*               mines blocks while they run.                              *)
(*   SpecSnapshot  the fetch, then the entry of theoretical_v4_slippage on *)
(*               the returned table at the snapshot's tick.                *)
(*   SpecHist    calculate_v4_slippage_at_block and                        *)
(*               batch_v4_slippage_at_blocks, one step per remote call.    *)
(*   SpecHelpers one call of one of the helpers: the two functions of      *)
(*               capital_efficiency.py, decompose_vault_returns, the two   *)
(*               binary searches, generate_daily_block_samples.            *)
(***************************************************************************)
EXTENDS Integers, Sequences, FiniteSets, TLC

VARIABLES
    \* ---- the pool as the remote StateView contract answers for it
    chain_bitmap,       \* word position -> 256-bit word, or RpcError
    chain_net,          \* initialized tick -> signed liquidityNet
    chain_pool,         \* the pool at the head block: tick and liquidity
    chain_history,      \* the pool states since the running fetch began
    \* ---- fetch_liquidity_distribution / find_initialized_ticks
    pc,                 \* position in the running function
    tick_spacing,       \* argument
    search_range,       \* argument
    current_tick,       \* slot0[1]
    current_liquidity,  \* getLiquidity()
    slot,               \* the returned snapshot dict
    word_pos,           \* loop variable of find_initialized_ticks
    initialized_ticks,  \* list of ticks
    bitmaps,            \* the words getTickBitmap answered: <<word_pos, bitmap>>
    tick_queries,       \* the ticks getTickLiquidity was called for, in order
    liq_net_by_tick,    \* dict tick -> liquidityNet
    ticks_above,
    ticks_below,
    bands,              \* list of band dicts, then the returned table
    L,                  \* running liquidity of the walk
    i,                  \* enumerate() index of the walk
    applied,            \* the net deltas the walks applied: <<walk, tick>>
    \* ---- _parse_bitmap_for_ticks
    parsed_ticks,       \* its return value
    \* ---- fetch_all_v4_data_sync (with current_tick, current_liquidity,
    \*      bitmaps and initialized_ticks above)
    tick_liquidity,     \* dict tick -> (gross, net)
    \* ---- theoretical_v4_slippage
    swap_pc,            \* position in the function
    amount_wei,         \* argument
    zero_for_one,       \* argument
    swap_current_tick,  \* argument current_tick
    df_liq,             \* argument: the band table
    swap_tick,          \* tick
    remaining,          \* float
    band,               \* the rows of df_liq that contain tick
    swap_L,             \* L, the liquidity of the band being consumed
    sqrt_p,             \* float
    spot_price,         \* float
    final_price,        \* float
    result,             \* the return value: NaN or a float
    iterations,         \* loop iterations entered
    \* ---- a second activation of theoretical_v4_slippage on the same table
    other,              \* its locals while the first one is running
    \* ---- calculate_tvl_from_ticks
    tvl_pc,             \* position in the function
    sorted_ticks,
    tvl_i,              \* enumerate() index i, from 1
    cumulative_liquidity,
    sqrt_price_current, \* float
    total_amount0,      \* float
    total_amount1,      \* float
    ranges,             \* the ranges walked: bounds, liquidity, amounts
    \* ---- calculate_v4_slippage_at_block / batch_v4_slippage_at_blocks
    hist_pc,            \* position in the running function
    hist_zero_for_one,  \* argument zero_for_one
    amount_in_wei,      \* argument of calculate_v4_slippage_at_block
    lp_fee,             \* slot0[3] of the block being processed
    spot_price_t1_per_t0, \* float
    at_block,           \* the dict calculate_v4_slippage_at_block returns
    blocks,             \* argument of batch_v4_slippage_at_blocks
    trade_amounts_wei,  \* argument
    block_idx,          \* index of `for block in blocks`, from 1
    amount_idx,         \* index of `for amount in trade_amounts_wei`, from 1
    current_price,      \* float
    block_result,       \* dict of the block being processed
    results,            \* list of dicts, the return value
    \* ---- the pure analysis helpers: one call of one of them
    called,             \* name of the function called
    call_pc,            \* position in it
    \* ---- find_breakeven_trade_size
    v2_net_avgs,        \* argument
    v4_net_avgs,        \* argument
    sizes_usd,          \* argument
    breakeven,          \* the return value: None or a float
    \* ---- compute_net_slippage_summary (with sizes_usd above)
    v2_results,         \* argument: list of dicts
    v4_results,         \* argument: list of dicts
    v2_amounts,         \* argument
    v4_amounts,         \* argument
    v2_fee_pct,         \* argument, float
    v4_fee_pct,         \* argument, float
    rows,               \* the rows of the returned DataFrame
    \* ---- decompose_vault_returns
    vault_usd,          \* argument: list of floats
    hodl_usd,           \* argument
    fullrange_usd,      \* argument
    decomposition,      \* the returned list of dicts
    \* ---- find_v4_pool_creation_block / find_vault_first_deposit_block
    chain_nonzero,      \* the blocks at which the chain answers a non-zero value
    search_start,       \* argument
    search_end,         \* argument
    search_low,         \* low
    search_high,        \* high
    found,              \* the return value
    \* ---- generate_daily_block_samples
    start_block,        \* argument
    end_block,          \* argument
    samples             \* the returned list blocks

fetch_vars == <<pc, tick_spacing, search_range, current_tick, current_liquidity,
                slot, word_pos, initialized_ticks, bitmaps, tick_queries,
                liq_net_by_tick, ticks_above, ticks_below, bands, L, i, applied>>
chain_vars == <<chain_bitmap, chain_net, chain_pool, chain_history>>
decode_vars == <<parsed_ticks>>
batch_vars == <<tick_liquidity>>
swap_vars == <<swap_pc, amount_wei, zero_for_one, swap_current_tick, df_liq,
               swap_tick, remaining, band, swap_L, sqrt_p, spot_price, final_price,
               result, iterations>>
caller_vars == <<other>>
tvl_vars == <<tvl_pc, sorted_ticks, tvl_i, cumulative_liquidity,
              sqrt_price_current, total_amount0, total_amount1, ranges>>
hist_vars == <<hist_pc, hist_zero_for_one, amount_in_wei, lp_fee,
               spot_price_t1_per_t0, at_block, blocks, trade_amounts_wei,
               block_idx, amount_idx, current_price, block_result, results>>
breakeven_vars == <<v2_net_avgs, v4_net_avgs, sizes_usd, breakeven>>
summary_vars == <<v2_results, v4_results, v2_amounts, v4_amounts, v2_fee_pct,
                  v4_fee_pct, rows>>
decompose_vars == <<vault_usd, hodl_usd, fullrange_usd, decomposition>>
search_vars == <<chain_nonzero, search_start, search_end, search_low, search_high, found>>
samples_vars == <<start_block, end_block, samples>>
helper_vars == <<called, call_pc, breakeven_vars, summary_vars, decompose_vars,
                 search_vars, samples_vars>>
util_vars == <<hist_vars, helper_vars>>
core_vars == <<chain_vars, fetch_vars, decode_vars, batch_vars, swap_vars,
               caller_vars, tvl_vars>>
not_hist_vars == <<core_vars, helper_vars>>
vars == <<chain_vars, fetch_vars, decode_vars, batch_vars, swap_vars, caller_vars,
          tvl_vars, util_vars>>

---------------------------------------------------------------------------
\* Bounds of the model.

\* Words are drawn from 0 .. 2^MaxBits - 1: only the low MaxBits bits of a
\* 256-bit word are ever set.
MaxBits == 2
\* At most MaxTicks bits are set over all the words of one pool.
MaxTicks == 3

\* Program constants.
WordSize == 256

\* getTickBitmap(...).call() raised.
RpcError == -1

TickSpacings == {1, 2}
SearchRanges == {0, 1}
CurrentTicks == {-1, 0, 1, 2, 3}
Liquidities == {0, 1, 3}
Nets == {-2, 1}

Words == 0 .. (2^MaxBits - 1)

---------------------------------------------------------------------------
\* Sequence helpers.

Range(s) == {s[k] : k \in 1..Len(s)}

\* Python's sorted() on a list of ints: insertion of each element in turn
\* behind the elements that are <= it (stable).
RECURSIVE InsertInt(_, _)
InsertInt(s, x) ==
    IF s = <<>> THEN <<x>>
    ELSE IF x < s[1] THEN <<x>> \o s
    ELSE <<s[1]>> \o InsertInt(Tail(s), x)

RECURSIVE sorted(_)
sorted(s) == IF s = <<>> THEN <<>>
             ELSE InsertInt(sorted(SubSeq(s, 1, Len(s) - 1)), s[Len(s)])

Reverse(s) == [k \in 1..Len(s) |-> s[Len(s) + 1 - k]]

\* max(a, b)
Max(a, b) == IF a >= b THEN a ELSE b
Min(a, b) == IF a <= b THEN a ELSE b

---------------------------------------------------------------------------
\* Bitmap decoding.

\* bitmap & (1 << bit_pos), for a word whose bits above MaxBits are clear.
BitSet(bitmap, bit_pos) ==
    IF bit_pos >= MaxBits THEN FALSE
    ELSE (bitmap \div (2^bit_pos)) % 2 = 1

\* Variant: only the bit position is scaled by the tick spacing.
TickOf_bit_scaled(w, bit_pos, spacing) == (w * WordSize) + (bit_pos * spacing)

\* tick = ((word_pos * 256) + bit_pos) * tick_spacing
TickOf(w, bit_pos, spacing) == ((w * WordSize) + bit_pos) * spacing

\* for bit_pos in range(256): if bitmap & (1 << bit_pos): append(tick)
WordTicks(w, bitmap, spacing) ==
    LET hits == SelectSeq([k \in 1..WordSize |-> k - 1],
                          LAMBDA b : BitSet(bitmap, b))
    IN  [k \in 1..Len(hits) |-> TickOf(w, hits[k], spacing)]

PopCount(bitmap) == Cardinality({b \in 0..(MaxBits - 1) : BitSet(bitmap, b)})

WordPositions(range) == (-range) .. range

\* The ticks the pool has initialized, as the chain holds them.
ChainTicks(cb, spacing) ==
    {TickOf(w, b, spacing) : <<w, b>> \in
        {wb \in (DOMAIN cb) \X (0..(MaxBits - 1)) :
            cb[wb[1]] # RpcError /\ BitSet(cb[wb[1]], wb[2])}}

RECURSIVE SumPop(_, _)
SumPop(cb, ws) ==
    IF ws = {} THEN 0
    ELSE LET w == CHOOSE x \in ws : TRUE
         IN  (IF cb[w] = RpcError THEN 0 ELSE PopCount(cb[w]))
             + SumPop(cb, ws \ {w})

---------------------------------------------------------------------------
\* fetch_liquidity_distribution

Band(lo, hi, liq) ==
    [tick_lower |-> lo, tick_upper |-> hi, active_liquidity |-> liq]

\* df.sort_values("tick_lower"): rows in ascending tick_lower.
RECURSIVE InsertBand(_, _)
InsertBand(s, b) ==
    IF s = <<>> THEN <<b>>
    ELSE IF b.tick_lower < s[1].tick_lower THEN <<b>> \o s
    ELSE <<s[1]>> \o InsertBand(Tail(s), b)

RECURSIVE sort_values(_)
sort_values(s) == IF s = <<>> THEN <<>>
                  ELSE InsertBand(sort_values(SubSeq(s, 1, Len(s) - 1)), s[Len(s)])

\* base_tick = (current_tick // tick_spacing) * tick_spacing
BaseTick(tick, spacing) == (tick \div spacing) * spacing
base_tick == BaseTick(current_tick, tick_spacing)

\* The pool as getSlot0 and getLiquidity answer for it at one block.
PoolStates == [tick : CurrentTicks, liquidity : Liquidities]
\* No pool is being read.
NoPool == [tick |-> 0, liquidity |-> 0]

\* No call of fetch_all_v4_data_sync has filled its dict.
BatchLocalsUnset == tick_liquidity = <<>>

\* No call of the historical slippage functions is under way.
HistIdle ==
    /\ hist_pc = "idle"
    /\ hist_zero_for_one = FALSE
    /\ amount_in_wei = 0
    /\ lp_fee = 0
    /\ spot_price_t1_per_t0 = 0
    /\ at_block = <<>>
    /\ blocks = <<>>
    /\ trade_amounts_wei = <<>>
    /\ block_idx = 0
    /\ amount_idx = 0
    /\ current_price = 0
    /\ block_result = <<>>
    /\ results = <<>>

\* The arguments of find_breakeven_trade_size when it is the function called:
\* net averages in steps of half a percent, one per trade size.
NetAvgs == {5000, 10000, 15000}
\* the sizes ascending, or descending
SizeLists(n) == {[k \in 1..n |-> 1000 * k], [k \in 1..n |-> 1000 * (n + 1 - k)]}
MaxSizes == 3
BreakevenArgs ==
    IF called = "find_breakeven_trade_size"
    THEN \E n \in 0..MaxSizes :
            /\ v2_net_avgs \in [1..n -> NetAvgs]
            /\ v4_net_avgs \in [1..n -> NetAvgs]
            /\ sizes_usd \in SizeLists(n)
            /\ breakeven = <<>>
    ELSE /\ v2_net_avgs = <<>>
         /\ v4_net_avgs = <<>>
         /\ breakeven = <<>>

\* The arguments of compute_net_slippage_summary when it is the function
\* called.  A dict is a function on its keys; the integer key amt and the
\* string key str(amt) of a trades dict are IntKey(amt) and StrKey(amt).
IntKey(amt) == <<"int", amt>>
StrKey(amt) == <<"str", amt>>
EmptyDict == <<>>
TradeEntries ==
    {[gross_slippage_pct |-> 0], [gross_slippage_pct |-> 10000],
     [gross_slippage_pct |-> 30000], [error |-> "revert"], EmptyDict}
TradesDicts ==
    {EmptyDict}
    \cup {IntKey(1000) :> e : e \in TradeEntries}
    \cup {StrKey(1000) :> e : e \in TradeEntries}
    \cup {(IntKey(1000) :> EmptyDict) @@ (StrKey(1000) :> [gross_slippage_pct |-> 10000]),
          (IntKey(1000) :> [gross_slippage_pct |-> 30000])
              @@ (IntKey(2000) :> [gross_slippage_pct |-> 10000]),
          (IntKey(1000) :> [error |-> "revert"])
              @@ (StrKey(2000) :> [gross_slippage_pct |-> 30000])}
ResultDicts ==
    {[block |-> 100, error |-> "rpc"],
     [block |-> 100, error |-> "rpc",
      trades |-> IntKey(1000) :> [gross_slippage_pct |-> 30000]]}
    \cup {[block |-> 100, trades |-> t] : t \in TradesDicts}
MaxResults == 2
SummaryArgs ==
    IF called = "compute_net_slippage_summary"
    THEN /\ \E n \in 0..MaxResults : v4_results \in [1..n -> ResultDicts]
         /\ v2_results \in {<<>>,
                             <<[block |-> 100, error |-> "rpc"]>>,
                             <<[block |-> 100, trades |->
                                  IntKey(1000) :> [gross_slippage_pct |-> 10000]]>>}
         /\ \E n \in 1..2 :
               /\ sizes_usd = SubSeq(<<1000, 5000>>, 1, n)
               /\ v2_amounts = SubSeq(<<1000, 2000>>, 1, n)
               /\ v4_amounts = SubSeq(<<1000, 2000>>, 1, n)
         /\ v2_fee_pct = 3000
         /\ v4_fee_pct \in {7000, 500}
         /\ rows = <<>>
    ELSE /\ v2_results = <<>>
         /\ v4_results = <<>>
         /\ v2_amounts = <<>>
         /\ v4_amounts = <<>>
         /\ v2_fee_pct = 0
         /\ v4_fee_pct = 0
         /\ rows = <<>>
         /\ called # "find_breakeven_trade_size" => sizes_usd = <<>>

\* The arguments of decompose_vault_returns when it is the function called:
\* equally long series of floats.  A float here is an integer whose binary
\* expansion has at most MantissaBits significant bits.
MantissaBits == 10
UsdValues == {1, 3, 1000, 2052}
MaxSeries == 2
DecomposeArgs ==
    IF called = "decompose_vault_returns"
    THEN /\ \E n \in 0..MaxSeries :
               /\ vault_usd \in [1..n -> UsdValues]
               /\ hodl_usd \in [1..n -> UsdValues]
               /\ fullrange_usd \in [1..n -> UsdValues]
         /\ decomposition = <<>>
    ELSE /\ vault_usd = <<>>
         /\ hodl_usd = <<>>
         /\ fullrange_usd = <<>>
         /\ decomposition = <<>>

\* The arguments of the two binary searches when one of them is the function
\* called, and what the chain answers at each block: sqrtPriceX96 (or
\* totalUnderlying) is non-zero at the blocks of chain_nonzero.  A pool stays
\* initialized; a vault can be emptied again.
LastBlock == 4
SearchNames == {"find_v4_pool_creation_block", "find_vault_first_deposit_block"}
StaysNonzero(S) == \A b \in S : \A c \in b..LastBlock : c \in S
SearchArgs ==
    IF called \in SearchNames
    THEN /\ chain_nonzero \in SUBSET (0..LastBlock)
         /\ called = "find_v4_pool_creation_block" => StaysNonzero(chain_nonzero)
         /\ search_start \in 0..LastBlock
         /\ search_end \in 0..LastBlock
         /\ search_low = search_start
         /\ search_high = search_end
         /\ found = -1
    ELSE /\ chain_nonzero = {}
         /\ search_start = 0
         /\ search_end = 0
         /\ search_low = 0
         /\ search_high = 0
         /\ found = -1

\* The arguments of generate_daily_block_samples when it is the function
\* called.
BLOCKS_PER_DAY == 7200
SampleBlocks == {0, 1, 5, 7200, 7201, 14400, 20000}
SamplesArgs ==
    IF called = "generate_daily_block_samples"
    THEN /\ start_block \in SampleBlocks
         /\ end_block \in SampleBlocks
         /\ samples = <<>>
    ELSE /\ start_block = 0
         /\ end_block = 0
         /\ samples = <<>>

\* None of the pure helpers has been called.
HelpersIdle ==
    /\ called = ""
    /\ call_pc = "idle"
    /\ BreakevenArgs
    /\ SummaryArgs
    /\ DecomposeArgs
    /\ SearchArgs
    /\ SamplesArgs

\* None of the analysis utilities is running.
UtilIdle == HistIdle /\ HelpersIdle

\* No call of calculate_tvl_from_ticks is under way.
TvlLocalsUnset ==
    /\ sorted_ticks = <<>>
    /\ tvl_i = 0
    /\ cumulative_liquidity = 0
    /\ sqrt_price_current = 0
    /\ total_amount0 = 0
    /\ total_amount1 = 0
    /\ ranges = <<>>
TvlIdle == tvl_pc = "idle" /\ TvlLocalsUnset

\* No call of theoretical_v4_slippage is under way.
NoResult == [kind |-> "none", value |-> 0]
\* The locals of an activation that has not started on amount a.
Frame(pos, a) ==
    [swap_pc |-> pos, amount_wei |-> a, swap_tick |-> 0, remaining |-> 0,
     band |-> <<>>, swap_L |-> 0, sqrt_p |-> 0, spot_price |-> 0,
     final_price |-> 0, result |-> NoResult, iterations |-> 0]
SwapIdle ==
    /\ swap_pc = "idle"
    /\ amount_wei = 0
    /\ zero_for_one = FALSE
    /\ swap_current_tick = 0
    /\ df_liq = <<>>
    /\ swap_tick = 0
    /\ remaining = 0
    /\ band = <<>>
    /\ swap_L = 0
    /\ sqrt_p = 0
    /\ spot_price = 0
    /\ final_price = 0
    /\ result = NoResult
    /\ iterations = 0
    /\ other = Frame("idle", 0)

\* Neither a fetcher nor a consumer of the band table is running.
CoreIdle ==
    /\ chain_bitmap = <<>>
    /\ chain_net = <<>>
    /\ chain_pool = NoPool
    /\ chain_history = {}
    /\ pc = "idle"
    /\ tick_spacing = 0
    /\ search_range = 0
    /\ current_tick = 0
    /\ current_liquidity = 0
    /\ slot = <<>>
    /\ word_pos = 0
    /\ initialized_ticks = <<>>
    /\ bitmaps = <<>>
    /\ tick_queries = <<>>
    /\ liq_net_by_tick = <<>>
    /\ ticks_above = <<>>
    /\ ticks_below = <<>>
    /\ bands = <<>>
    /\ L = 0
    /\ i = 0
    /\ applied = <<>>
    /\ parsed_ticks = <<>>
    /\ BatchLocalsUnset
    /\ SwapIdle
    /\ TvlIdle

\* The pool, and a call of fetch_liquidity_distribution about to start.
InitFetch ==
    /\ tick_spacing \in TickSpacings
    /\ search_range \in SearchRanges
    /\ chain_bitmap \in
         {cb \in [WordPositions(search_range) -> Words \cup {RpcError}] :
             SumPop(cb, DOMAIN cb) <= MaxTicks}
    /\ chain_net \in [ChainTicks(chain_bitmap, tick_spacing) -> Nets]
    /\ chain_pool \in PoolStates
    /\ chain_history = {chain_pool}
    /\ pc = "getSlot0"
    /\ current_tick = 0
    /\ current_liquidity = 0
    /\ slot = <<>>
    /\ word_pos = 0
    /\ initialized_ticks = <<>>
    /\ bitmaps = <<>>
    /\ tick_queries = <<>>
    /\ liq_net_by_tick = <<>>
    /\ ticks_above = <<>>
    /\ ticks_below = <<>>
    /\ bands = <<>>
    /\ L = 0
    /\ i = 0
    /\ applied = <<>>
    /\ parsed_ticks = <<>>
    /\ BatchLocalsUnset
    /\ UtilIdle
    /\ SwapIdle

Init == InitFetch /\ TvlIdle

\* slot0 = stateview.functions.getSlot0(pool_id).call()
GetSlot0 ==
    /\ pc = "getSlot0"
    /\ current_tick' = chain_pool.tick
    /\ pc' = "getLiquidity"
    /\ UNCHANGED <<chain_vars, batch_vars, util_vars, caller_vars, tvl_vars, decode_vars, swap_vars, tick_spacing, search_range, current_liquidity, slot,
                   word_pos, initialized_ticks, bitmaps, tick_queries,
                   liq_net_by_tick, ticks_above, ticks_below, bands, L, i, applied>>

\* current_liquidity = getLiquidity(pool_id).call(); slot = {...};
\* then the call of find_initialized_ticks starts its loop.
GetLiquidity ==
    /\ pc = "getLiquidity"
    /\ current_liquidity' = chain_pool.liquidity
    /\ slot' = [tick |-> current_tick, liquidity |-> chain_pool.liquidity]
    /\ word_pos' = -search_range
    /\ initialized_ticks' = <<>>
    /\ pc' = "scan"
    /\ UNCHANGED <<chain_vars, batch_vars, util_vars, caller_vars, tvl_vars, decode_vars, swap_vars, tick_spacing, search_range, current_tick,
                   bitmaps, tick_queries, liq_net_by_tick, ticks_above,
                   ticks_below, bands, L, i, applied>>

\* One iteration of find_initialized_ticks' loop whose call answered.
ScanWord ==
    /\ pc = "scan"
    /\ word_pos <= search_range
    /\ chain_bitmap[word_pos] # RpcError
    /\ LET bitmap == chain_bitmap[word_pos] IN
         /\ bitmaps' = Append(bitmaps, <<word_pos, bitmap>>)
         /\ initialized_ticks' =
              IF bitmap = 0 THEN initialized_ticks
              ELSE initialized_ticks \o WordTicks(word_pos, bitmap, tick_spacing)
    /\ word_pos' = word_pos + 1
    /\ UNCHANGED <<chain_vars, batch_vars, util_vars, caller_vars, tvl_vars, decode_vars, swap_vars, pc, tick_spacing, search_range, current_tick,
                   current_liquidity, slot, tick_queries, liq_net_by_tick,
                   ticks_above, ticks_below, bands, L, i, applied>>

\* One iteration whose call raised: except Exception: continue
ScanWordFailed ==
    /\ pc = "scan"
    /\ word_pos <= search_range
    /\ chain_bitmap[word_pos] = RpcError
    /\ word_pos' = word_pos + 1
    /\ UNCHANGED <<chain_vars, batch_vars, util_vars, caller_vars, tvl_vars, decode_vars, swap_vars, pc, tick_spacing, search_range, current_tick,
                   current_liquidity, slot, initialized_ticks, bitmaps,
                   tick_queries, liq_net_by_tick, ticks_above, ticks_below,
                   bands, L, i, applied>>

\* return sorted(initialized_ticks)
ScanReturn ==
    /\ pc = "scan"
    /\ word_pos > search_range
    /\ initialized_ticks' = sorted(initialized_ticks)
    /\ pc' = "scanned"
    /\ UNCHANGED <<chain_vars, batch_vars, util_vars, caller_vars, tvl_vars, decode_vars, swap_vars, tick_spacing, search_range, current_tick,
                   current_liquidity, slot, word_pos, bitmaps, tick_queries,
                   liq_net_by_tick, ticks_above, ticks_below, bands, L, i, applied>>

\* Variant: a band made up around the current tick.
empty_df_fabricated ==
    <<Band(base_tick, base_tick + tick_spacing, current_liquidity)>>

\* pd.DataFrame({"tick_lower": [], "tick_upper": [], "active_liquidity": []})
empty_df == <<>>

\* if not initialized_ticks: return empty_df, slot
ReturnEmpty ==
    /\ pc = "scanned"
    /\ initialized_ticks = <<>>
    /\ bands' = empty_df
    /\ pc' = "done"
    /\ UNCHANGED <<chain_vars, batch_vars, util_vars, caller_vars, tvl_vars, decode_vars, swap_vars, tick_spacing, search_range, current_tick,
                   current_liquidity, slot, word_pos, initialized_ticks, bitmaps,
                   tick_queries, liq_net_by_tick, ticks_above, ticks_below,
                   L, i, applied>>

\* Variant: a tick equal to the current tick is also walked upward.
IsAbove_inclusive(t, tick) == t >= tick

\* [t for t in initialized_ticks if t > current_tick]
IsAbove(t, tick) == t > tick
\* [t for t in initialized_ticks if t <= current_tick]
IsBelow(t, tick) == t <= tick

\* get_tick_liquidity_data: one getTickLiquidity call per initialized tick,
\* then liq_net_by_tick, base_tick and the two partitions.
GetTickLiquidityData ==
    /\ pc = "scanned"
    /\ initialized_ticks # <<>>
    /\ tick_queries' = initialized_ticks
    /\ liq_net_by_tick' = [t \in Range(initialized_ticks) |-> chain_net[t]]
    /\ ticks_above' = sorted(SelectSeq(initialized_ticks,
                                       LAMBDA t : IsAbove(t, current_tick)))
    /\ ticks_below' = Reverse(sorted(SelectSeq(initialized_ticks,
                                               LAMBDA t : IsBelow(t, current_tick))))
    /\ bands' = <<>>
    /\ L' = current_liquidity
    /\ i' = 0
    /\ pc' = "up_first"
    /\ UNCHANGED <<chain_vars, batch_vars, util_vars, caller_vars, tvl_vars, decode_vars, swap_vars, tick_spacing, search_range, current_tick,
                   current_liquidity, slot, word_pos, initialized_ticks, bitmaps,
                   applied>>

\* Variant: the active range already carries the first delta above.
FirstBand_crossed(base, above, liq) ==
    Band(base, above[1], liq + liq_net_by_tick[above[1]])

\* {"tick_lower": base_tick, "tick_upper": ticks_above[0], "active_liquidity": L}
FirstBand(base, above, liq) == Band(base, above[1], liq)

\* L = current_liquidity; if ticks_above: the active range, from base_tick to
\* the first tick above, carrying L.
UpFirst ==
    /\ pc = "up_first"
    /\ ticks_above # <<>>
    /\ bands' = Append(bands, FirstBand(base_tick, ticks_above, L))
    /\ i' = 0
    /\ pc' = "up"
    /\ UNCHANGED <<chain_vars, batch_vars, util_vars, caller_vars, tvl_vars, decode_vars, swap_vars, tick_spacing, search_range, current_tick,
                   current_liquidity, slot, word_pos, initialized_ticks, bitmaps,
                   tick_queries, liq_net_by_tick, ticks_above, ticks_below,
                   L, applied>>

\* if ticks_above: is false
SkipUp ==
    /\ pc = "up_first"
    /\ ticks_above = <<>>
    /\ pc' = "bridge"
    /\ UNCHANGED <<chain_vars, batch_vars, util_vars, caller_vars, tvl_vars, decode_vars, swap_vars, tick_spacing, search_range, current_tick,
                   current_liquidity, slot, word_pos, initialized_ticks, bitmaps,
                   tick_queries, liq_net_by_tick, ticks_above, ticks_below,
                   bands, L, i, applied>>

\* Variant: no clamping.
Clamp_none(liq) == liq

\* The liquidity a band is given: max(L, 0)
Clamp(liq) == Max(liq, 0)

\* Variant: the clamped value is carried on as the running liquidity.
CrossDown_clamped(liq, net) == IF liq - net >= 0 THEN liq - net ELSE 0

\* The running liquidity after crossing tick t upward / downward.
CrossUp(liq, net) == liq + net
CrossDown(liq, net) == liq - net

\* One iteration of: for i, t in enumerate(ticks_above)
UpStep ==
    /\ pc = "up"
    /\ i < Len(ticks_above)
    /\ LET t == ticks_above[i + 1]
           newL == CrossUp(L, liq_net_by_tick[t])
           next_tick == IF i + 1 < Len(ticks_above) THEN ticks_above[i + 2]
                        ELSE t + tick_spacing
       IN  /\ L' = newL
           /\ bands' = Append(bands, Band(t, next_tick, Clamp(newL)))
           /\ applied' = Append(applied, <<"up", t>>)
    /\ i' = i + 1
    /\ UNCHANGED <<chain_vars, batch_vars, util_vars, caller_vars, tvl_vars, decode_vars, swap_vars, pc, tick_spacing, search_range, current_tick,
                   current_liquidity, slot, word_pos, initialized_ticks, bitmaps,
                   tick_queries, liq_net_by_tick, ticks_above, ticks_below>>

\* The upward loop is exhausted.
UpDone ==
    /\ pc = "up"
    /\ i = Len(ticks_above)
    /\ pc' = "bridge"
    /\ UNCHANGED <<chain_vars, batch_vars, util_vars, caller_vars, tvl_vars, decode_vars, swap_vars, tick_spacing, search_range, current_tick,
                   current_liquidity, slot, word_pos, initialized_ticks, bitmaps,
                   tick_queries, liq_net_by_tick, ticks_above, ticks_below,
                   bands, L, i, applied>>

\* Variant: a bridge band whenever a tick lies at or below the current tick.
BridgeNeeded_always == ticks_below # <<>>

\* if ticks_below and ticks_below[0] < base_tick
BridgeNeeded == ticks_below # <<>> /\ ticks_below[1] < base_tick

\* Variant: the bridge band starts at the lowest tick of the below partition.
BridgeBandOf_lowest(below, base, liq) == Band(below[Len(below)], base, liq)

\* The bridge band the code appends.
BridgeBandOf(below, base, liq) == Band(below[1], base, liq)

\* Bridge band appended; then L = current_liquidity for the downward walk.
BridgeBand ==
    /\ pc = "bridge"
    /\ BridgeNeeded
    /\ bands' = Append(bands, BridgeBandOf(ticks_below, base_tick, current_liquidity))
    /\ L' = current_liquidity
    /\ i' = 0
    /\ pc' = "down"
    /\ UNCHANGED <<chain_vars, batch_vars, util_vars, caller_vars, tvl_vars, decode_vars, swap_vars, tick_spacing, search_range, current_tick,
                   current_liquidity, slot, word_pos, initialized_ticks, bitmaps,
                   tick_queries, liq_net_by_tick, ticks_above, ticks_below, applied>>

\* No bridge band; then L = current_liquidity for the downward walk.
NoBridge ==
    /\ pc = "bridge"
    /\ ~BridgeNeeded
    /\ L' = current_liquidity
    /\ i' = 0
    /\ pc' = "down"
    /\ UNCHANGED <<chain_vars, batch_vars, util_vars, caller_vars, tvl_vars, decode_vars, swap_vars, tick_spacing, search_range, current_tick,
                   current_liquidity, slot, word_pos, initialized_ticks, bitmaps,
                   tick_queries, liq_net_by_tick, ticks_above, ticks_below,
                   bands, applied>>

\* One iteration of: for i, t in enumerate(ticks_below)
DownStep ==
    /\ pc = "down"
    /\ i < Len(ticks_below)
    /\ LET t == ticks_below[i + 1]
           newL == CrossDown(L, liq_net_by_tick[t])
           lower_tick == IF i + 1 < Len(ticks_below) THEN ticks_below[i + 2]
                         ELSE t - tick_spacing
       IN  /\ L' = newL
           /\ bands' = Append(bands, Band(lower_tick, t, Clamp(newL)))
           /\ applied' = Append(applied, <<"down", t>>)
    /\ i' = i + 1
    /\ UNCHANGED <<chain_vars, batch_vars, util_vars, caller_vars, tvl_vars, decode_vars, swap_vars, pc, tick_spacing, search_range, current_tick,
                   current_liquidity, slot, word_pos, initialized_ticks, bitmaps,
                   tick_queries, liq_net_by_tick, ticks_above, ticks_below>>

\* df.sort_values("tick_lower"); reset_index; return df, slot
SortAndReturn ==
    /\ pc = "down"
    /\ i = Len(ticks_below)
    /\ bands' = sort_values(bands)
    /\ pc' = "done"
    /\ UNCHANGED <<chain_vars, batch_vars, util_vars, caller_vars, tvl_vars, decode_vars, swap_vars, tick_spacing, search_range, current_tick,
                   current_liquidity, slot, word_pos, initialized_ticks, bitmaps,
                   tick_queries, liq_net_by_tick, ticks_above, ticks_below,
                   L, i, applied>>

Next ==
    \/ GetSlot0
    \/ GetLiquidity
    \/ ScanWord
    \/ ScanWordFailed
    \/ ScanReturn
    \/ ReturnEmpty
    \/ GetTickLiquidityData
    \/ UpFirst
    \/ SkipUp
    \/ UpStep
    \/ UpDone
    \/ BridgeBand
    \/ NoBridge
    \/ DownStep
    \/ SortAndReturn

Spec == Init /\ [][Next]_vars

---------------------------------------------------------------------------
\* The bitmap decoders: find_initialized_ticks, and _parse_bitmap_for_ticks on
\* the dict fetch_all_v4_data_sync builds from the words that were answered.

DecodeSpacings == {1, 2, 60}

\* _parse_bitmap_for_ticks(bitmaps, tick_spacing), the dict given as its items
\* in insertion order.
RECURSIVE ItemTicks(_, _)
ItemTicks(items, spacing) ==
    IF items = <<>> THEN <<>>
    ELSE LET w == items[1][1]
             bitmap == items[1][2]
         IN  (IF bitmap = 0 THEN <<>> ELSE WordTicks(w, bitmap, spacing))
             \o ItemTicks(Tail(items), spacing)

ParseBitmapForTicks(items, spacing) == sorted(ItemTicks(items, spacing))

InitDecode ==
    /\ tick_spacing \in DecodeSpacings
    /\ search_range \in SearchRanges
    /\ chain_bitmap \in [WordPositions(search_range) -> Words \cup {RpcError}]
    /\ chain_net = <<>>
    /\ chain_pool = NoPool
    /\ chain_history = {}
    /\ pc = "scan"
    /\ current_tick = 0
    /\ current_liquidity = 0
    /\ slot = <<>>
    /\ word_pos = -search_range
    /\ initialized_ticks = <<>>
    /\ bitmaps = <<>>
    /\ tick_queries = <<>>
    /\ liq_net_by_tick = <<>>
    /\ ticks_above = <<>>
    /\ ticks_below = <<>>
    /\ bands = <<>>
    /\ L = 0
    /\ i = 0
    /\ applied = <<>>
    /\ parsed_ticks = <<>>
    /\ BatchLocalsUnset
    /\ UtilIdle
    /\ SwapIdle
    /\ TvlIdle

\* The orders in which a dict may hold the same items.
Orderings(items) ==
    {[k \in 1..Len(items) |-> items[f[k]]] :
        f \in {g \in [1..Len(items) -> 1..Len(items)] :
                  \A a, b \in 1..Len(items) : a # b => g[a] # g[b]}}

\* initialized_ticks = _parse_bitmap_for_ticks(bitmaps, TICK_SPACING), the
\* dict holding the answered words in any insertion order.
ParseBitmaps ==
    /\ pc = "scanned"
    /\ \E items \in Orderings(bitmaps) :
         parsed_ticks' = ParseBitmapForTicks(items, tick_spacing)
    /\ pc' = "parsed"
    /\ UNCHANGED <<chain_vars, batch_vars, util_vars, caller_vars, tvl_vars, swap_vars, tick_spacing, search_range,
                   current_tick, current_liquidity, slot, word_pos,
                   initialized_ticks, bitmaps, tick_queries, liq_net_by_tick,
                   ticks_above, ticks_below, bands, L, i, applied>>

NextDecode ==
    \/ ScanWord
    \/ ScanWordFailed
    \/ ScanReturn
    \/ ParseBitmaps

SpecDecode == InitDecode /\ [][NextDecode]_vars

---------------------------------------------------------------------------
\* Floating point.  A float is modelled as an integer count of 1/Precision:
\* every operation is the exact operation followed by a rounding toward zero
\* to that grid, so that, as with floats, sqrt(x)^2 need not be x.  Liquidity
\* and the percent factor are whole numbers and multiply and divide exactly.

\* The resolution of the modelled floats.
Precision == 10000

Abs(x) == IF x >= 0 THEN x ELSE -x
FMul(a, b) == (a * b) \div Precision
FDiv(a, b) == (a * Precision) \div b
\* 1 / x and 1.0 / x
FInv(x) == (Precision * Precision) \div x
\* float(amount_wei)
ToFloat(n) == n * Precision

\* The spacing of the floats around x >= 0: the least power of two q with
\* x < 2^MantissaBits * q.
RECURSIVE UlpFrom(_, _)
UlpFrom(x, q) == IF x < (2 ^ MantissaBits) * q THEN q ELSE UlpFrom(x, 2 * q)

\* The multiple of the spacing q nearest to a >= 0, ties to the even
\* multiple.
Nearest(a, q) ==
    IF 2 * (a % q) < q THEN a - (a % q)
    ELSE IF 2 * (a % q) > q THEN a - (a % q) + q
    ELSE IF (a \div q) % 2 = 0 THEN a - (a % q) ELSE a - (a % q) + q

\* The float nearest to the real x, ties to the even mantissa: the result of
\* a float sum or difference is its exact result rounded this way.  (x and
\* the spacing are bound as elements of a set so that each is computed once.)
Rnd(x) ==
    CHOOSE r \in UNION {{IF v >= 0 THEN Nearest(v, q) ELSE -Nearest(-v, q) :
                            q \in {UlpFrom(Abs(v), 1)}} : v \in {x}} : TRUE

\* a + b and a - b on floats
FAdd(a, b) == Rnd(a + b)
FSub(a, b) == Rnd(a - b)

\* (the iterate and the half power below are bound as elements of a set so
\* that each is computed once)
RECURSIVE Newton(_, _)
Newton(n, guess) ==
    CHOOSE r \in {IF better >= guess THEN guess ELSE Newton(n, better) :
                     better \in {(guess + (n \div guess)) \div 2}} : TRUE
\* math.sqrt: the largest grid value whose square does not exceed v
FSqrt(v) == IF v = 0 THEN 0
            ELSE Newton(v * Precision, IF v >= Precision THEN v ELSE Precision)

\* The float 1.0001
TickBase == Precision + (Precision \div 10000)

\* 1.0001 ** n for n >= 0, by squaring
RECURSIVE PowBase(_)
PowBase(n) ==
    IF n = 0 THEN Precision
    ELSE IF n % 2 = 0
         THEN CHOOSE r \in {FMul(half, half) :
                              half \in {PowBase(n \div 2)}} : TRUE
         ELSE FMul(PowBase(n - 1), TickBase)
\* 1.0001 ** t
TickPrice(t) == IF t >= 0 THEN PowBase(t) ELSE FDiv(Precision, PowBase(-t))
\* math.sqrt(1.0001 ** t)
SqrtPriceAt(t) == FSqrt(TickPrice(t))

---------------------------------------------------------------------------
\* theoretical_v4_slippage

SwapLowers == {-60, 0, 60}
SwapUppers == {0, 60, 120}
\* liquidities without, with little and with much depth; against the last, the
\* smallest amounts are below the resolution of the float sum
SwapLiquidities == {0, 1000, 3000, 30000}
SwapTicks == {-60, -30, 0, 30, 60, 90}
Amounts == {0, 1, 2, 4, 8, 2048}

\* The rows a table may hold for one tick_lower: none, or one band.
RowsFrom(lo) ==
    {<<>>} \cup {<<Band(lo, hi, liq)>> :
                    hi \in {u \in SwapUppers : u > lo}, liq \in SwapLiquidities}

\* Band tables in ascending tick_lower: empty, single, contiguous, with gaps,
\* overlapping, with and without liquidity.
SwapTables == {a \o b \o c : a \in RowsFrom(-60), b \in RowsFrom(0), c \in RowsFrom(60)}

\* Variant: the upper bound belongs to the band.
InBand_closed(r, t) == r.tick_lower <= t /\ r.tick_upper >= t

\* (df_liq["tick_lower"] <= tick) & (df_liq["tick_upper"] > tick)
InBand(r, t) == r.tick_lower <= t /\ r.tick_upper > t
Lookup(table, t) == SelectSeq(table, LAMBDA r : InBand(r, t))

NaN == [kind |-> "nan", value |-> 0]
Float(x) == [kind |-> "float", value |-> x]

\* abs(spot_price - final_price) / spot_price * 100
Slippage(spot, final) == FDiv(Abs(spot - final), spot) * 100

InitSwap ==
    /\ chain_bitmap = <<>>
    /\ chain_net = <<>>
    /\ chain_pool = NoPool
    /\ chain_history = {}
    /\ pc = "idle"
    /\ tick_spacing = 0
    /\ search_range = 0
    /\ current_tick = 0
    /\ current_liquidity = 0
    /\ slot = <<>>
    /\ word_pos = 0
    /\ initialized_ticks = <<>>
    /\ bitmaps = <<>>
    /\ tick_queries = <<>>
    /\ liq_net_by_tick = <<>>
    /\ ticks_above = <<>>
    /\ ticks_below = <<>>
    /\ bands = <<>>
    /\ L = 0
    /\ i = 0
    /\ applied = <<>>
    /\ parsed_ticks = <<>>
    /\ BatchLocalsUnset
    /\ UtilIdle
    /\ swap_pc = "start"
    /\ amount_wei \in Amounts
    /\ zero_for_one \in BOOLEAN
    /\ swap_current_tick \in SwapTicks
    /\ df_liq \in SwapTables
    /\ swap_tick = 0
    /\ remaining = 0
    /\ band = <<>>
    /\ swap_L = 0
    /\ sqrt_p = 0
    /\ spot_price = 0
    /\ final_price = 0
    /\ result = NoResult
    /\ iterations = 0
    /\ other = Frame("idle", 0)
    /\ TvlIdle

not_swap_vars == <<chain_vars, fetch_vars, decode_vars, batch_vars, caller_vars,
                   tvl_vars, util_vars>>

\* tick = current_tick; remaining = float(amount_wei); band = ...;
\* if band.empty: return float("nan")
SwapNoBand ==
    /\ swap_pc = "start"
    /\ Lookup(df_liq, swap_current_tick) = <<>>
    /\ swap_tick' = swap_current_tick
    /\ remaining' = ToFloat(amount_wei)
    /\ band' = <<>>
    /\ result' = NaN
    /\ swap_pc' = "done"
    /\ UNCHANGED <<not_swap_vars, amount_wei, zero_for_one, swap_current_tick,
                   df_liq, swap_L, sqrt_p, spot_price, final_price, iterations>>

\* ... else: row0 = band.iloc[0]; L, sqrt_p, spot_price
SwapStart ==
    /\ swap_pc = "start"
    /\ Lookup(df_liq, swap_current_tick) # <<>>
    /\ swap_tick' = swap_current_tick
    /\ remaining' = ToFloat(amount_wei)
    /\ band' = Lookup(df_liq, swap_current_tick)
    /\ swap_L' = Lookup(df_liq, swap_current_tick)[1].active_liquidity
    /\ sqrt_p' = SqrtPriceAt(swap_current_tick)
    /\ spot_price' = TickPrice(swap_current_tick)
    /\ swap_pc' = "loop"
    /\ UNCHANGED <<not_swap_vars, amount_wei, zero_for_one, swap_current_tick,
                   df_liq, final_price, result, iterations>>

\* Variant: the band walk takes one step only (an `if` for the `while`).
LoopCond_once == remaining > 0 /\ swap_L > 0 /\ iterations < 1

\* while remaining > 0 and L > 0
LoopCond == remaining > 0 /\ swap_L > 0

sqrt_p_lower == SqrtPriceAt(band[1].tick_lower)
sqrt_p_upper == SqrtPriceAt(band[1].tick_upper)

\* max_dx = L * (1 / sqrt_p_lower - 1 / sqrt_p) if sqrt_p > sqrt_p_lower else 0.0
max_dx == IF sqrt_p > sqrt_p_lower
          THEN swap_L * (FInv(sqrt_p_lower) - FInv(sqrt_p)) ELSE 0
\* max_dy = L * (sqrt_p_upper - sqrt_p) if sqrt_p_upper > sqrt_p else 0.0
max_dy == IF sqrt_p_upper > sqrt_p
          THEN swap_L * (sqrt_p_upper - sqrt_p) ELSE 0

\* zero_for_one, the rest fits: sqrt_p = 1.0 / (1.0 / sqrt_p + remaining / L)
FillZeroForOne ==
    /\ swap_pc = "loop" /\ LoopCond
    /\ zero_for_one
    /\ (remaining <= max_dx \/ max_dx <= 0)
    /\ sqrt_p' = FInv(FInv(sqrt_p) + (remaining \div swap_L))
    /\ remaining' = 0
    /\ iterations' = iterations + 1
    /\ UNCHANGED <<not_swap_vars, swap_pc, amount_wei, zero_for_one,
                   swap_current_tick, df_liq, swap_tick, band, swap_L,
                   spot_price, final_price, result>>

\* Variant: the lookup narrows the caller's table in place instead of
\* building a new frame.
CrossZeroForOne_inplace ==
    /\ swap_pc = "loop" /\ LoopCond
    /\ zero_for_one
    /\ ~(remaining <= max_dx \/ max_dx <= 0)
    /\ Lookup(df_liq, band[1].tick_lower - 1) # <<>>
    /\ remaining' = FSub(remaining, max_dx)
    /\ sqrt_p' = sqrt_p_lower
    /\ swap_tick' = band[1].tick_lower - 1
    /\ band' = Lookup(df_liq, band[1].tick_lower - 1)
    /\ df_liq' = Lookup(df_liq, band[1].tick_lower - 1)
    /\ swap_L' = Lookup(df_liq, band[1].tick_lower - 1)[1].active_liquidity
    /\ iterations' = iterations + 1
    /\ UNCHANGED <<not_swap_vars, swap_pc, amount_wei, zero_for_one,
                   swap_current_tick, spot_price, final_price, result>>

\* zero_for_one, the band is used up and a band lies below it
CrossZeroForOne ==
    /\ swap_pc = "loop" /\ LoopCond
    /\ zero_for_one
    /\ ~(remaining <= max_dx \/ max_dx <= 0)
    /\ Lookup(df_liq, band[1].tick_lower - 1) # <<>>
    /\ remaining' = FSub(remaining, max_dx)
    /\ sqrt_p' = sqrt_p_lower
    /\ swap_tick' = band[1].tick_lower - 1
    /\ band' = Lookup(df_liq, band[1].tick_lower - 1)
    /\ swap_L' = Lookup(df_liq, band[1].tick_lower - 1)[1].active_liquidity
    /\ iterations' = iterations + 1
    /\ UNCHANGED <<not_swap_vars, swap_pc, amount_wei, zero_for_one,
                   swap_current_tick, df_liq, spot_price, final_price, result>>

\* zero_for_one, the band is used up and none lies below it: break
BreakZeroForOne ==
    /\ swap_pc = "loop" /\ LoopCond
    /\ zero_for_one
    /\ ~(remaining <= max_dx \/ max_dx <= 0)
    /\ Lookup(df_liq, band[1].tick_lower - 1) = <<>>
    /\ remaining' = FSub(remaining, max_dx)
    /\ sqrt_p' = sqrt_p_lower
    /\ swap_tick' = band[1].tick_lower - 1
    /\ band' = <<>>
    /\ iterations' = iterations + 1
    /\ swap_pc' = "break"
    /\ UNCHANGED <<not_swap_vars, amount_wei, zero_for_one, swap_current_tick,
                   df_liq, swap_L, spot_price, final_price, result>>

\* one_for_zero, the rest fits: sqrt_p = sqrt_p + remaining / L
FillOneForZero ==
    /\ swap_pc = "loop" /\ LoopCond
    /\ ~zero_for_one
    /\ (remaining <= max_dy \/ max_dy <= 0)
    /\ sqrt_p' = sqrt_p + (remaining \div swap_L)
    /\ remaining' = 0
    /\ iterations' = iterations + 1
    /\ UNCHANGED <<not_swap_vars, swap_pc, amount_wei, zero_for_one,
                   swap_current_tick, df_liq, swap_tick, band, swap_L,
                   spot_price, final_price, result>>

\* Variant: the lookup tick is not advanced to tick_upper.
CrossOneForZero_stays ==
    /\ swap_pc = "loop" /\ LoopCond
    /\ ~zero_for_one
    /\ ~(remaining <= max_dy \/ max_dy <= 0)
    /\ Lookup(df_liq, band[1].tick_upper) # <<>>
    /\ remaining' = FSub(remaining, max_dy)
    /\ sqrt_p' = sqrt_p_upper
    /\ iterations' = iterations + 1
    /\ UNCHANGED <<not_swap_vars, swap_pc, amount_wei, zero_for_one,
                   swap_current_tick, df_liq, swap_tick, band, swap_L,
                   spot_price, final_price, result>>

\* one_for_zero, the band is used up and a band lies above it
CrossOneForZero ==
    /\ swap_pc = "loop" /\ LoopCond
    /\ ~zero_for_one
    /\ ~(remaining <= max_dy \/ max_dy <= 0)
    /\ Lookup(df_liq, band[1].tick_upper) # <<>>
    /\ remaining' = FSub(remaining, max_dy)
    /\ sqrt_p' = sqrt_p_upper
    /\ swap_tick' = band[1].tick_upper
    /\ band' = Lookup(df_liq, band[1].tick_upper)
    /\ swap_L' = Lookup(df_liq, band[1].tick_upper)[1].active_liquidity
    /\ iterations' = iterations + 1
    /\ UNCHANGED <<not_swap_vars, swap_pc, amount_wei, zero_for_one,
                   swap_current_tick, df_liq, spot_price, final_price, result>>

\* one_for_zero, the band is used up and none lies above it: break
BreakOneForZero ==
    /\ swap_pc = "loop" /\ LoopCond
    /\ ~zero_for_one
    /\ ~(remaining <= max_dy \/ max_dy <= 0)
    /\ Lookup(df_liq, band[1].tick_upper) = <<>>
    /\ remaining' = FSub(remaining, max_dy)
    /\ sqrt_p' = sqrt_p_upper
    /\ swap_tick' = band[1].tick_upper
    /\ band' = <<>>
    /\ iterations' = iterations + 1
    /\ swap_pc' = "break"
    /\ UNCHANGED <<not_swap_vars, amount_wei, zero_for_one, swap_current_tick,
                   df_liq, swap_L, spot_price, final_price, result>>

\* final_price = sqrt_p ** 2
FinalPrice(sp) == FMul(sp, sp)

\* The loop is left: final_price = sqrt_p ** 2; return the slippage.
SwapReturn ==
    /\ \/ swap_pc = "loop" /\ ~LoopCond
       \/ swap_pc = "break"
    /\ final_price' = FinalPrice(sqrt_p)
    /\ result' = Float(Slippage(spot_price, FinalPrice(sqrt_p)))
    /\ swap_pc' = "done"
    /\ UNCHANGED <<not_swap_vars, amount_wei, zero_for_one, swap_current_tick,
                   df_liq, swap_tick, remaining, band, swap_L, sqrt_p,
                   spot_price, iterations>>

NextSwap ==
    \/ SwapNoBand
    \/ SwapStart
    \/ FillZeroForOne
    \/ CrossZeroForOne
    \/ BreakZeroForOne
    \/ FillOneForZero
    \/ CrossOneForZero
    \/ BreakOneForZero
    \/ SwapReturn

SpecSwap == InitSwap /\ [][NextSwap]_vars

\* The interpreter runs the call to its return: while a statement remains to
\* be executed, one is executed.
SpecSwapFair == SpecSwap /\ WF_vars(NextSwap)

---------------------------------------------------------------------------
\* Two activations of theoretical_v4_slippage on one band table, for the same
\* tick and direction: each has its own locals, df_liq is the one object both
\* were passed.  The activation whose locals are in the variables is the one
\* running; Switch hands the processor to the other one between two steps.

PairAmounts == {1, 2, 4}

InitPair ==
    /\ chain_bitmap = <<>>
    /\ chain_net = <<>>
    /\ chain_pool = NoPool
    /\ chain_history = {}
    /\ pc = "idle"
    /\ tick_spacing = 0
    /\ search_range = 0
    /\ current_tick = 0
    /\ current_liquidity = 0
    /\ slot = <<>>
    /\ word_pos = 0
    /\ initialized_ticks = <<>>
    /\ bitmaps = <<>>
    /\ tick_queries = <<>>
    /\ liq_net_by_tick = <<>>
    /\ ticks_above = <<>>
    /\ ticks_below = <<>>
    /\ bands = <<>>
    /\ L = 0
    /\ i = 0
    /\ applied = <<>>
    /\ parsed_ticks = <<>>
    /\ BatchLocalsUnset
    /\ UtilIdle
    /\ swap_pc = "start"
    /\ amount_wei \in PairAmounts
    /\ zero_for_one \in BOOLEAN
    /\ swap_current_tick \in SwapTicks
    /\ df_liq \in SwapTables
    /\ swap_tick = 0
    /\ remaining = 0
    /\ band = <<>>
    /\ swap_L = 0
    /\ sqrt_p = 0
    /\ spot_price = 0
    /\ final_price = 0
    /\ result = NoResult
    /\ iterations = 0
    /\ \E a \in PairAmounts : a >= amount_wei /\ other = Frame("start", a)
    /\ TvlIdle

\* The locals of the running activation.
Locals ==
    [swap_pc |-> swap_pc, amount_wei |-> amount_wei, swap_tick |-> swap_tick,
     remaining |-> remaining, band |-> band, swap_L |-> swap_L,
     sqrt_p |-> sqrt_p, spot_price |-> spot_price,
     final_price |-> final_price, result |-> result,
     iterations |-> iterations]

Switch ==
    /\ other.swap_pc # "idle"
    /\ other' = Locals
    /\ swap_pc' = other.swap_pc
    /\ amount_wei' = other.amount_wei
    /\ swap_tick' = other.swap_tick
    /\ remaining' = other.remaining
    /\ band' = other.band
    /\ swap_L' = other.swap_L
    /\ sqrt_p' = other.sqrt_p
    /\ spot_price' = other.spot_price
    /\ final_price' = other.final_price
    /\ result' = other.result
    /\ iterations' = other.iterations
    /\ UNCHANGED <<chain_vars, batch_vars, util_vars, fetch_vars, decode_vars, tvl_vars, zero_for_one,
                   swap_current_tick, df_liq>>

NextPair ==
    \/ NextSwap
    \/ Switch

SpecPair == InitPair /\ [][NextPair]_vars

---------------------------------------------------------------------------
\* calculate_tvl_from_ticks, called for the pool fetch_liquidity_distribution
\* has returned the bands of, with the same tick_spacing and search_range.

\* tick_to_sqrt_price: 1.0001 ** (tick / 2)
tick_to_sqrt_price(t) ==
    IF t % 2 = 0 THEN TickPrice(t \div 2) ELSE FSqrt(TickPrice(t))

\* The sqrt prices the pool may report: below, between and above the
\* initialized ticks of the model, each further from every one of them than
\* the resolution of the modelled floats.
SqrtPriceTicks == {-640, -128, 128, 640}
SqrtPrices == {tick_to_sqrt_price(t) : t \in SqrtPriceTicks}

\* sp = max(min(sqrt_price_current, sqrt_price_high), sqrt_price_low)
ClampPrice(cur, low, high) ==
    LET lower == IF cur <= high THEN cur ELSE high
    IN  IF lower >= low THEN lower ELSE low

\* Variant: the current price is used as it is, outside the range too.
calculate_token0_amount_unclamped(liquidity, cur, low, high) ==
    FDiv(liquidity * (high - cur), FMul(cur, high))

\* liquidity * (sqrt_price_high - sp) / (sp * sqrt_price_high)
calculate_token0_amount(liquidity, cur, low, high) ==
    LET sp == ClampPrice(cur, low, high)
    IN  IF sp >= high THEN 0
        ELSE FDiv(liquidity * (high - sp), FMul(sp, high))

\* liquidity * (sp - sqrt_price_low)
calculate_token1_amount(liquidity, cur, low, high) ==
    LET sp == ClampPrice(cur, low, high)
    IN  IF sp <= low THEN 0
        ELSE liquidity * (sp - low)

\* find_initialized_ticks, word by word from w
RECURSIVE ScanFrom(_)
ScanFrom(w) ==
    IF w > search_range THEN <<>>
    ELSE (IF chain_bitmap[w] = RpcError \/ chain_bitmap[w] = 0 THEN <<>>
          ELSE WordTicks(w, chain_bitmap[w], tick_spacing)) \o ScanFrom(w + 1)
find_initialized_ticks == sorted(ScanFrom(-search_range))

\* Variant: the delta replaces the running sum (`=` for `+=`).
Accumulate_overwrite(cumulative, liquidity_net) == liquidity_net

\* cumulative_liquidity += liquidity_net
Accumulate(cumulative, liquidity_net) == cumulative + liquidity_net

InitTvl ==
    /\ InitFetch
    /\ tvl_pc = "call"
    /\ TvlLocalsUnset

\* initialized_ticks = find_initialized_ticks(...); if not initialized_ticks:
\* return 0.0, 0.0
TvlReturnEmpty ==
    /\ pc = "done"
    /\ tvl_pc = "call"
    /\ find_initialized_ticks = <<>>
    /\ total_amount0' = 0
    /\ total_amount1' = 0
    /\ tvl_pc' = "done"
    /\ UNCHANGED <<chain_vars, batch_vars, util_vars, fetch_vars, decode_vars, swap_vars, caller_vars,
                   sorted_ticks, tvl_i, cumulative_liquidity,
                   sqrt_price_current, ranges>>

\* ... else: get_slot0, the totals, cumulative_liquidity = 0,
\* sorted_ticks = sorted(initialized_ticks)
TvlGetSlot0 ==
    /\ pc = "done"
    /\ tvl_pc = "call"
    /\ find_initialized_ticks # <<>>
    /\ \E sp \in SqrtPrices : sqrt_price_current' = sp
    /\ total_amount0' = 0
    /\ total_amount1' = 0
    /\ cumulative_liquidity' = 0
    /\ sorted_ticks' = sorted(find_initialized_ticks)
    /\ tvl_i' = 1
    /\ tvl_pc' = "loop"
    /\ UNCHANGED <<chain_vars, batch_vars, util_vars, fetch_vars, decode_vars, swap_vars, caller_vars,
                   ranges>>

\* One iteration of `for i, tick in enumerate(sorted_ticks)`.
TvlStep ==
    /\ tvl_pc = "loop"
    /\ tvl_i <= Len(sorted_ticks)
    /\ LET tick == sorted_ticks[tvl_i]
           liquidity_net == chain_net[tick]
           cumulative == Accumulate(cumulative_liquidity, liquidity_net)
       IN  /\ cumulative_liquidity' = cumulative
           /\ IF tvl_i < Len(sorted_ticks)
              THEN LET tick_high == sorted_ticks[tvl_i + 1]
                       sqrt_price_low == tick_to_sqrt_price(tick)
                       sqrt_price_high == tick_to_sqrt_price(tick_high)
                       amount0 == IF cumulative > 0
                                  THEN calculate_token0_amount(
                                          cumulative, sqrt_price_current,
                                          sqrt_price_low, sqrt_price_high)
                                  ELSE 0
                       amount1 == IF cumulative > 0
                                  THEN calculate_token1_amount(
                                          cumulative, sqrt_price_current,
                                          sqrt_price_low, sqrt_price_high)
                                  ELSE 0
                   IN  /\ total_amount0' = total_amount0 + amount0
                       /\ total_amount1' = total_amount1 + amount1
                       /\ ranges' = Append(ranges,
                              [tick_low |-> tick, tick_high |-> tick_high,
                               liquidity |-> cumulative,
                               amount0 |-> amount0, amount1 |-> amount1])
              ELSE UNCHANGED <<total_amount0, total_amount1, ranges>>
    /\ tvl_i' = tvl_i + 1
    /\ UNCHANGED <<chain_vars, batch_vars, util_vars, fetch_vars, decode_vars, swap_vars, caller_vars,
                   tvl_pc, sorted_ticks, sqrt_price_current>>

\* return total_amount0, total_amount1
TvlReturn ==
    /\ tvl_pc = "loop"
    /\ tvl_i > Len(sorted_ticks)
    /\ tvl_pc' = "done"
    /\ UNCHANGED <<chain_vars, batch_vars, util_vars, fetch_vars, decode_vars, swap_vars, caller_vars,
                   sorted_ticks, tvl_i, cumulative_liquidity,
                   sqrt_price_current, total_amount0, total_amount1, ranges>>

NextTvl ==
    \/ Next
    \/ TvlReturnEmpty
    \/ TvlGetSlot0
    \/ TvlStep
    \/ TvlReturn

SpecTvl == InitTvl /\ [][NextTvl]_vars

---------------------------------------------------------------------------
\* The two fetchers on a chain that moves on while they run:
\* fetch_liquidity_distribution (one remote call per action, as above) and
\* fetch_all_v4_data_sync (one remote call per multicall).

\* The pool states a fetch may see, the first one included.
MaxBlocks == 2

LiveRanges == {0}

\* A block is mined in which a swap or a position change has moved the pool's
\* tick or liquidity.
NewBlock ==
    /\ pc \notin {"idle", "done", "v4data", "raised"}
    /\ Cardinality(chain_history) < MaxBlocks
    /\ \E s \in PoolStates \ chain_history :
         /\ chain_pool' = s
         /\ chain_history' = chain_history \cup {s}
    /\ UNCHANGED <<chain_bitmap, chain_net, fetch_vars, decode_vars, batch_vars,
                   swap_vars, caller_vars, tvl_vars, util_vars>>

\* liquidityGross of a tick, as the chain answers it.
ChainGross(t) == Abs(chain_net[t])

\* for i, word_pos in enumerate(word_positions):
\*     if success and data: bitmaps[word_pos] = decode_tick_bitmap_result(data)
RECURSIVE DecodedWords(_)
DecodedWords(w) ==
    IF w > search_range THEN <<>>
    ELSE (IF chain_bitmap[w] = RpcError THEN <<>>
          ELSE <<(<<w, chain_bitmap[w]>>)>>) \o DecodedWords(w + 1)

\* Phase 1: slot0, liquidity and every bitmap word in a single multicall,
\* answered by one eth_call; then the results are decoded.
Phase1 ==
    /\ pc = "phase1"
    /\ current_tick' = chain_pool.tick
    /\ current_liquidity' = chain_pool.liquidity
    /\ bitmaps' = DecodedWords(-search_range)
    /\ pc' = "phase2"
    /\ UNCHANGED <<chain_vars, batch_vars, util_vars, decode_vars, swap_vars,
                   caller_vars, tvl_vars, tick_spacing, search_range, slot,
                   word_pos, initialized_ticks, tick_queries, liq_net_by_tick,
                   ticks_above, ticks_below, bands, L, i, applied>>

\* Phase 1 when the multicall, or its slot0 or liquidity sub-call, failed:
\* decode_slot0_result / decode_liquidity_result raise on the empty data.
Phase1Raises ==
    /\ pc = "phase1"
    /\ pc' = "raised"
    /\ UNCHANGED <<chain_vars, batch_vars, util_vars, decode_vars, swap_vars,
                   caller_vars, tvl_vars, tick_spacing, search_range,
                   current_tick, current_liquidity, slot, word_pos,
                   initialized_ticks, bitmaps, tick_queries, liq_net_by_tick,
                   ticks_above, ticks_below, bands, L, i, applied>>

\* Phase 2: initialized_ticks = _parse_bitmap_for_ticks(bitmaps, TICK_SPACING)
Phase2 ==
    /\ pc = "phase2"
    /\ initialized_ticks' = ParseBitmapForTicks(bitmaps, tick_spacing)
    /\ pc' = "phase3"
    /\ UNCHANGED <<chain_vars, batch_vars, util_vars, decode_vars, swap_vars,
                   caller_vars, tvl_vars, tick_spacing, search_range,
                   current_tick, current_liquidity, slot, word_pos, bitmaps,
                   tick_queries, liq_net_by_tick, ticks_above, ticks_below,
                   bands, L, i, applied>>

\* for i, tick in enumerate(initialized_ticks):
\*     if success and data: tick_liquidity[tick] = (gross, net)
TickLiquidityOf(ticks, succeeded) ==
    [t \in Range(ticks) \cap succeeded |-> <<ChainGross(t), chain_net[t]>>]

\* Phase 3: one multicall for the tick liquidity of every initialized tick,
\* each sub-call succeeding or failing on its own; then V4PoolData is returned.
Phase3 ==
    /\ pc = "phase3"
    /\ tick_queries' = initialized_ticks
    /\ \E succeeded \in SUBSET Range(initialized_ticks) :
         tick_liquidity' = TickLiquidityOf(initialized_ticks, succeeded)
    /\ pc' = "v4data"
    /\ UNCHANGED <<chain_vars, util_vars, decode_vars, swap_vars,
                   caller_vars, tvl_vars, tick_spacing, search_range,
                   current_tick, current_liquidity, slot, word_pos,
                   initialized_ticks, bitmaps, liq_net_by_tick, ticks_above,
                   ticks_below, bands, L, i, applied>>

\* The pool, and a call of one of the two fetchers about to start.
InitLive ==
    /\ tick_spacing \in TickSpacings
    /\ search_range \in LiveRanges
    /\ chain_bitmap \in
         {cb \in [WordPositions(search_range) -> Words \cup {RpcError}] :
             SumPop(cb, DOMAIN cb) <= MaxTicks}
    /\ chain_net \in [ChainTicks(chain_bitmap, tick_spacing) -> Nets]
    /\ chain_pool \in PoolStates
    /\ chain_history = {chain_pool}
    /\ pc \in {"getSlot0", "phase1"}
    /\ current_tick = 0
    /\ current_liquidity = 0
    /\ slot = <<>>
    /\ word_pos = 0
    /\ initialized_ticks = <<>>
    /\ bitmaps = <<>>
    /\ tick_queries = <<>>
    /\ liq_net_by_tick = <<>>
    /\ ticks_above = <<>>
    /\ ticks_below = <<>>
    /\ bands = <<>>
    /\ L = 0
    /\ i = 0
    /\ applied = <<>>
    /\ parsed_ticks = <<>>
    /\ BatchLocalsUnset
    /\ UtilIdle
    /\ SwapIdle
    /\ TvlIdle

NextLive ==
    \/ Next
    \/ Phase1
    \/ Phase1Raises
    \/ Phase2
    \/ Phase3
    \/ NewBlock

SpecLive == InitLive /\ [][NextLive]_vars

---------------------------------------------------------------------------
\* theoretical_v4_slippage called on what fetch_liquidity_distribution
\* returned: the band table as df_liq, the tick of the snapshot as
\* current_tick.  Only the entry of the function is followed here, up to the
\* lookup of the band that holds the tick.

SnapshotAmounts == {1, 2}

SwapOnSnapshot ==
    /\ pc = "done"
    /\ slot # <<>>
    /\ swap_pc = "idle"
    /\ df_liq' = bands
    /\ swap_current_tick' = slot.tick
    /\ \E a \in SnapshotAmounts : amount_wei' = a
    /\ \E z \in BOOLEAN : zero_for_one' = z
    /\ swap_pc' = "start"
    /\ UNCHANGED <<not_swap_vars, swap_tick, remaining, band, swap_L, sqrt_p,
                   spot_price, final_price, result, iterations>>

NextSnapshot ==
    \/ Next
    \/ SwapOnSnapshot
    \/ SwapNoBand
    \/ SwapStart

SpecSnapshot == Init /\ [][NextSnapshot]_vars

---------------------------------------------------------------------------
\* calculate_v4_slippage_at_block and batch_v4_slippage_at_blocks
\* (v4_historical_slippage.py).  getSlot0 and the quoter answer for a
\* historical block; what they answer is drawn when they are called.

\* sqrt(price) of the pool at a block, 0 for a pool not yet initialized
HistSqrtPrices == {0, Precision \div 2, Precision, 2 * Precision}
LpFees == {0, 3000, 7000, 100000}
AmountsIn == {0, 1000, 2000}
AmountsOut == {0, 999, 1000, 1500}
BlockLists == {<<100>>, <<100, 200>>}
TradeAmountLists == {<<1000>>, <<0, 1000>>}

\* fee_pct = lp_fee / 1_000_000
FeePct(fee) == (fee * Precision) \div 1000000

\* exec_price: amount_out / amount_in, or amount_in / amount_out, 0.0 when the
\* divisor is not positive
ExecPrice(zfo, amount_in, amount_out) ==
    IF zfo THEN (IF amount_in > 0 THEN (amount_out * Precision) \div amount_in
                 ELSE 0)
    ELSE (IF amount_out > 0 THEN (amount_in * Precision) \div amount_out
          ELSE 0)

\* net_slippage_pct = abs(spot - exec_price) / spot * 100
NetSlippage(spot, exec) == FDiv(Abs(spot - exec), spot) * 100

\* Variant: the difference is returned without the floor at zero.
GrossSlippage_unfloored(spot, exec, fee) ==
    NetSlippage(spot, exec) - FeePct(fee) * 100

\* gross_slippage_pct = abs(spot - exec_price) / spot * 100 - fee_pct * 100,
\* returned as max(gross_slippage_pct, 0.0)
GrossSlippage(spot, exec, fee) ==
    Max(NetSlippage(spot, exec) - FeePct(fee) * 100, 0)

InitHist ==
    /\ CoreIdle
    /\ HelpersIdle
    /\ hist_pc \in {"at_block", "batch"}
    /\ hist_zero_for_one \in BOOLEAN
    /\ IF hist_pc = "at_block"
       THEN /\ amount_in_wei \in AmountsIn
            /\ blocks = <<100>>
            /\ trade_amounts_wei = <<>>
            /\ block_idx = 0
       ELSE /\ amount_in_wei = 0
            /\ blocks \in BlockLists
            /\ trade_amounts_wei \in TradeAmountLists
            /\ block_idx = 1
    /\ lp_fee = 0
    /\ spot_price_t1_per_t0 = 0
    /\ at_block = <<>>
    /\ amount_idx = 0
    /\ current_price = 0
    /\ block_result = <<>>
    /\ results = <<>>

\* getSlot0 at the block; if sqrt_price_x96 == 0: return {"error": ...}
AtBlockNotInitialized ==
    /\ hist_pc = "at_block"
    /\ at_block' = [error |-> "pool not initialized", block |-> blocks[1]]
    /\ hist_pc' = "returned"
    /\ UNCHANGED <<not_hist_vars, hist_zero_for_one, amount_in_wei, lp_fee,
                   spot_price_t1_per_t0, blocks, trade_amounts_wei, block_idx,
                   amount_idx, current_price, block_result, results>>

\* getSlot0 at the block; spot_price_t1_per_t0 = float(price)
AtBlockGetSlot0 ==
    /\ hist_pc = "at_block"
    /\ \E sqrt_price \in HistSqrtPrices \ {0} :
         spot_price_t1_per_t0' = FMul(sqrt_price, sqrt_price)
    /\ \E fee \in LpFees : lp_fee' = fee
    /\ hist_pc' = "quote"
    /\ UNCHANGED <<not_hist_vars, hist_zero_for_one, amount_in_wei, at_block,
                   blocks, trade_amounts_wei, block_idx, amount_idx,
                   current_price, block_result, results>>

\* quoteExactInputSingle at the block, the two slippages, the returned dict
AtBlockQuote ==
    /\ hist_pc = "quote"
    /\ \E amount_out_wei \in AmountsOut :
         LET exec_price ==
                 ExecPrice(hist_zero_for_one, amount_in_wei, amount_out_wei)
         IN  at_block' =
                 [block |-> blocks[1],
                  spot_price |-> spot_price_t1_per_t0,
                  execution_price |-> exec_price,
                  amount_out_wei |-> amount_out_wei,
                  lp_fee |-> lp_fee,
                  gross_slippage_pct |->
                      GrossSlippage(spot_price_t1_per_t0, exec_price, lp_fee),
                  net_slippage_pct |->
                      NetSlippage(spot_price_t1_per_t0, exec_price)]
    /\ hist_pc' = "returned"
    /\ UNCHANGED <<not_hist_vars, hist_zero_for_one, amount_in_wei, lp_fee,
                   spot_price_t1_per_t0, blocks, trade_amounts_wei, block_idx,
                   amount_idx, current_price, block_result, results>>

\* One of the two remote calls raises: calculate_v4_slippage_at_block has no
\* handler and raises.
AtBlockRaises ==
    /\ hist_pc \in {"at_block", "quote"}
    /\ hist_pc' = "raised"
    /\ UNCHANGED <<not_hist_vars, hist_zero_for_one, amount_in_wei, lp_fee,
                   spot_price_t1_per_t0, at_block, blocks, trade_amounts_wei,
                   block_idx, amount_idx, current_price, block_result,
                   results>>

\* for block in blocks: the pool is not initialized at the block, or getSlot0
\* raised: an error dict is appended
BatchBlockError ==
    /\ hist_pc = "batch"
    /\ block_idx <= Len(blocks)
    /\ \E e \in {"pool not initialized", "rpc"} :
         results' = Append(results, [block |-> blocks[block_idx], error |-> e])
    /\ block_idx' = block_idx + 1
    /\ UNCHANGED <<not_hist_vars, hist_pc, hist_zero_for_one, amount_in_wei,
                   lp_fee, spot_price_t1_per_t0, at_block, blocks,
                   trade_amounts_wei, amount_idx, current_price, block_result>>

\* for block in blocks: current_price, fee_pct, block_result = {...}
BatchGetSlot0 ==
    /\ hist_pc = "batch"
    /\ block_idx <= Len(blocks)
    /\ \E sqrt_price \in HistSqrtPrices \ {0}, fee \in LpFees :
         /\ current_price' = FMul(sqrt_price, sqrt_price)
         /\ lp_fee' = fee
         /\ block_result' = [block |-> blocks[block_idx],
                             spot_price |-> FMul(sqrt_price, sqrt_price),
                             lp_fee |-> fee,
                             trades |-> <<>>]
    /\ amount_idx' = 1
    /\ hist_pc' = "trades"
    /\ UNCHANGED <<not_hist_vars, hist_zero_for_one, amount_in_wei,
                   spot_price_t1_per_t0, at_block, blocks, trade_amounts_wei,
                   block_idx, results>>

\* for amount in trade_amounts_wei: the quote, gross and net, the trade entry
BatchTrade ==
    /\ hist_pc = "trades"
    /\ amount_idx <= Len(trade_amounts_wei)
    /\ \E amount_out \in AmountsOut :
         LET amount == trade_amounts_wei[amount_idx]
             exec_price == ExecPrice(hist_zero_for_one, amount, amount_out)
             entry == [amount_out |-> amount_out,
                       gross_slippage_pct |->
                           GrossSlippage(current_price, exec_price, lp_fee),
                       net_slippage_pct |->
                           NetSlippage(current_price, exec_price)]
         IN  block_result' =
                 [block_result EXCEPT !.trades = (amount :> entry) @@ @]
    /\ amount_idx' = amount_idx + 1
    /\ UNCHANGED <<not_hist_vars, hist_pc, hist_zero_for_one, amount_in_wei,
                   lp_fee, spot_price_t1_per_t0, at_block, blocks,
                   trade_amounts_wei, block_idx, current_price, results>>

\* for amount in trade_amounts_wei: the quote raised: {"error": str(e)}
BatchTradeError ==
    /\ hist_pc = "trades"
    /\ amount_idx <= Len(trade_amounts_wei)
    /\ block_result' =
           [block_result EXCEPT !.trades =
               (trade_amounts_wei[amount_idx] :> [error |-> "revert"]) @@ @]
    /\ amount_idx' = amount_idx + 1
    /\ UNCHANGED <<not_hist_vars, hist_pc, hist_zero_for_one, amount_in_wei,
                   lp_fee, spot_price_t1_per_t0, at_block, blocks,
                   trade_amounts_wei, block_idx, current_price, results>>

\* results.append(block_result)
BatchAppend ==
    /\ hist_pc = "trades"
    /\ amount_idx > Len(trade_amounts_wei)
    /\ results' = Append(results, block_result)
    /\ block_idx' = block_idx + 1
    /\ hist_pc' = "batch"
    /\ UNCHANGED <<not_hist_vars, hist_zero_for_one, amount_in_wei, lp_fee,
                   spot_price_t1_per_t0, at_block, blocks, trade_amounts_wei,
                   amount_idx, current_price, block_result>>

\* return results
BatchReturn ==
    /\ hist_pc = "batch"
    /\ block_idx > Len(blocks)
    /\ hist_pc' = "returned"
    /\ UNCHANGED <<not_hist_vars, hist_zero_for_one, amount_in_wei, lp_fee,
                   spot_price_t1_per_t0, at_block, blocks, trade_amounts_wei,
                   block_idx, amount_idx, current_price, block_result,
                   results>>

NextHist ==
    \/ AtBlockNotInitialized
    \/ AtBlockGetSlot0
    \/ AtBlockQuote
    \/ AtBlockRaises
    \/ BatchBlockError
    \/ BatchGetSlot0
    \/ BatchTrade
    \/ BatchTradeError
    \/ BatchAppend
    \/ BatchReturn

SpecHist == InitHist /\ [][NextHist]_vars

---------------------------------------------------------------------------
\* The pure helpers of capital_efficiency.py, vault_performance.py and
\* block_utils.py: each behaviour is one call of one of them.

\* the value None
None == [kind |-> "none", value |-> 0]

\* diffs = [v2 - v4 for v2, v4 in zip(v2_net_avgs, v4_net_avgs)]
Diffs(v2, v4) == [k \in 1..Min(Len(v2), Len(v4)) |-> v2[k] - v4[k]]

\* if diffs[i] * diffs[i + 1] < 0
SignChange(d, k) == FMul(d[k], d[k + 1]) < 0

\* frac = abs(diffs[i]) / (abs(diffs[i]) + abs(diffs[i + 1]))
\* breakeven = sizes_usd[i] + frac * (sizes_usd[i + 1] - sizes_usd[i])
Interpolate(d, sizes, k) ==
    ToFloat(sizes[k])
        + FDiv(Abs(d[k]), Abs(d[k]) + Abs(d[k + 1])) * (sizes[k + 1] - sizes[k])

\* the loop of find_breakeven_trade_size: the first i with a sign change
find_breakeven_trade_size(v2, v4, sizes) ==
    LET diffs == Diffs(v2, v4)
        changes == {k \in 1..(Len(diffs) - 1) : SignChange(diffs, k)}
    IN  IF changes = {} THEN None
        ELSE Float(Interpolate(diffs, sizes,
                               CHOOSE k \in changes : \A j \in changes : k <= j))

FindBreakeven ==
    /\ called = "find_breakeven_trade_size"
    /\ call_pc = "called"
    /\ breakeven' = find_breakeven_trade_size(v2_net_avgs, v4_net_avgs, sizes_usd)
    /\ call_pc' = "returned"
    /\ UNCHANGED <<core_vars, hist_vars, called, v2_net_avgs, v4_net_avgs,
                   sizes_usd, summary_vars, decompose_vars, search_vars,
                   samples_vars>>

\* trades.get(key), None and {} being alike falsy
DictGet(d, key) == IF key \in DOMAIN d THEN d[key] ELSE EmptyDict

\* trades.get(amt) or trades.get(str(amt)) or {}
get_trade(r, amt) ==
    LET trades == DictGet(r, "trades")
    IN  IF DOMAIN DictGet(trades, IntKey(amt)) # {}
        THEN DictGet(trades, IntKey(amt))
        ELSE DictGet(trades, StrKey(amt))

\* bool(t) and "error" not in t and "gross_slippage_pct" in t
has_trade(r, amt) ==
    LET t == get_trade(r, amt)
    IN  /\ DOMAIN t # {}
        /\ "error" \notin DOMAIN t
        /\ "gross_slippage_pct" \in DOMAIN t

\* Variant: a result with a top-level error is not filtered out.
Averaged_ignoring_error(r, amt) == has_trade(r, amt)

\* the filter of the two list comprehensions
Averaged(r, amt) == "error" \notin DOMAIN r /\ has_trade(r, amt)

\* [_get_trade(r, amt)["gross_slippage_pct"] for r in results if ...]
GrossList(rs, amt) ==
    LET keep == SelectSeq(rs, LAMBDA r : Averaged(r, amt))
    IN  [k \in 1..Len(keep) |-> get_trade(keep[k], amt).gross_slippage_pct]

RECURSIVE SumSeq(_)
SumSeq(xs) == IF xs = <<>> THEN 0 ELSE Head(xs) + SumSeq(Tail(xs))

\* float(np.mean(gross)) if gross else 0.0
MeanOrZero(xs) == IF xs = <<>> THEN 0 ELSE SumSeq(xs) \div Len(xs)

\* (a - b) / a * 100 if a > 0 else 0.0
Improvement(a, b) == IF a > 0 THEN FDiv(a - b, a) * 100 ELSE 0

\* one iteration of the loop over zip(sizes_usd, v2_amounts, v4_amounts)
SummaryRow(k) ==
    LET v2_g == MeanOrZero(GrossList(v2_results, v2_amounts[k]))
        v4_g == MeanOrZero(GrossList(v4_results, v4_amounts[k]))
        v2_n == v2_g + v2_fee_pct
        v4_n == v4_g + v4_fee_pct
    IN  [size_usd |-> sizes_usd[k],
         v2_gross_avg |-> v2_g,
         v4_gross_avg |-> v4_g,
         v2_net_avg |-> v2_n,
         v4_net_avg |-> v4_n,
         gross_improvement_pct |-> Improvement(v2_g, v4_g),
         net_improvement_pct |-> Improvement(v2_n, v4_n)]

ComputeNetSlippageSummary ==
    /\ called = "compute_net_slippage_summary"
    /\ call_pc = "called"
    /\ rows' = [k \in 1..Min(Len(sizes_usd), Min(Len(v2_amounts), Len(v4_amounts)))
                  |-> SummaryRow(k)]
    /\ call_pc' = "returned"
    /\ UNCHANGED <<core_vars, hist_vars, called, breakeven_vars, v2_results,
                   v4_results, v2_amounts, v4_amounts, v2_fee_pct, v4_fee_pct,
                   decompose_vars, search_vars, samples_vars>>

\* the body of the loop of decompose_vault_returns
Decomposed(k) ==
    LET initial_hodl == IF hodl_usd # <<>> THEN hodl_usd[1] ELSE 0
        il_fullrange == FSub(fullrange_usd[k], hodl_usd[k])
        management_premium == FSub(vault_usd[k], fullrange_usd[k])
    IN  [price_return |-> FSub(hodl_usd[k], initial_hodl),
         il_fullrange |-> il_fullrange,
         management_premium |-> management_premium,
         total_lp_effect |-> FAdd(il_fullrange, management_premium)]

DecomposeVaultReturns ==
    /\ called = "decompose_vault_returns"
    /\ call_pc = "called"
    /\ decomposition' = [k \in 1..Len(vault_usd) |-> Decomposed(k)]
    /\ call_pc' = "returned"
    /\ UNCHANGED <<core_vars, hist_vars, called, breakeven_vars, summary_vars,
                   vault_usd, hodl_usd, fullrange_usd, search_vars,
                   samples_vars>>

\* mid = (low + high) // 2
search_mid == (search_low + search_high) \div 2

\* while low < high: the call at mid answers a non-zero value: high = mid
SearchLower ==
    /\ called \in SearchNames
    /\ call_pc = "called"
    /\ search_low < search_high
    /\ search_mid \in chain_nonzero
    /\ search_high' = search_mid
    /\ UNCHANGED <<core_vars, hist_vars, called, call_pc, breakeven_vars,
                   summary_vars, decompose_vars, chain_nonzero, search_start,
                   search_end, search_low, found, samples_vars>>

\* while low < high: the call at mid answers zero: low = mid + 1
SearchHigher ==
    /\ called \in SearchNames
    /\ call_pc = "called"
    /\ search_low < search_high
    /\ search_mid \notin chain_nonzero
    /\ search_low' = search_mid + 1
    /\ UNCHANGED <<core_vars, hist_vars, called, call_pc, breakeven_vars,
                   summary_vars, decompose_vars, chain_nonzero, search_start,
                   search_end, search_high, found, samples_vars>>

\* while low < high: the call at mid raises: except Exception: low = mid + 1
SearchRaised ==
    /\ called \in SearchNames
    /\ call_pc = "called"
    /\ search_low < search_high
    /\ search_low' = search_mid + 1
    /\ UNCHANGED <<core_vars, hist_vars, called, call_pc, breakeven_vars,
                   summary_vars, decompose_vars, chain_nonzero, search_start,
                   search_end, search_high, found, samples_vars>>

\* return low
SearchReturn ==
    /\ called \in SearchNames
    /\ call_pc = "called"
    /\ ~(search_low < search_high)
    /\ found' = search_low
    /\ call_pc' = "returned"
    /\ UNCHANGED <<core_vars, hist_vars, called, breakeven_vars, summary_vars,
                   decompose_vars, chain_nonzero, search_start, search_end,
                   search_low, search_high, samples_vars>>

\* while current <= end_block: blocks.append(current); current += BLOCKS_PER_DAY
RECURSIVE DailyBlocks(_, _)
DailyBlocks(current, last) ==
    IF current <= last
    THEN <<current>> \o DailyBlocks(current + BLOCKS_PER_DAY, last)
    ELSE <<>>

\* if blocks[-1] != end_block: blocks.append(end_block); return blocks
GenerateDailyBlockSamples ==
    /\ called = "generate_daily_block_samples"
    /\ call_pc = "called"
    /\ DailyBlocks(start_block, end_block) # <<>>
    /\ LET blocks_ == DailyBlocks(start_block, end_block)
       IN  samples' = IF blocks_[Len(blocks_)] # end_block
                      THEN Append(blocks_, end_block)
                      ELSE blocks_
    /\ call_pc' = "returned"
    /\ UNCHANGED <<core_vars, hist_vars, called, breakeven_vars, summary_vars,
                   decompose_vars, search_vars, start_block, end_block>>

\* blocks is empty: blocks[-1] raises IndexError
GenerateDailyBlockSamplesRaises ==
    /\ called = "generate_daily_block_samples"
    /\ call_pc = "called"
    /\ DailyBlocks(start_block, end_block) = <<>>
    /\ call_pc' = "raised"
    /\ UNCHANGED <<core_vars, hist_vars, called, breakeven_vars, summary_vars,
                   decompose_vars, search_vars, samples_vars>>

HelperNames ==
    {"find_breakeven_trade_size", "compute_net_slippage_summary",
     "decompose_vault_returns", "generate_daily_block_samples"}
        \cup SearchNames

InitHelpers ==
    /\ CoreIdle
    /\ HistIdle
    /\ called \in HelperNames
    /\ call_pc = "called"
    /\ BreakevenArgs
    /\ SummaryArgs
    /\ DecomposeArgs
    /\ SearchArgs
    /\ SamplesArgs

NextHelpers ==
    \/ FindBreakeven
    \/ ComputeNetSlippageSummary
    \/ DecomposeVaultReturns
    \/ SearchLower
    \/ SearchHigher
    \/ SearchRaised
    \/ SearchReturn
    \/ GenerateDailyBlockSamples
    \/ GenerateDailyBlockSamplesRaises

SpecHelpers == InitHelpers /\ [][NextHelpers]_vars

---------------------------------------------------------------------------
\* Properties of fetch_liquidity_distribution.

Returned == pc = "done"
TickSet == Range(initialized_ticks)
AboveSet == {t \in TickSet : t > current_tick}
BelowSet == {t \in TickSet : t <= current_tick}

RECURSIVE SumNet(_)
SumNet(S) == IF S = {} THEN 0
             ELSE LET t == CHOOSE x \in S : TRUE
                  IN  chain_net[t] + SumNet(S \ {t})

SetMax(S) == CHOOSE x \in S : \A y \in S : y <= x
SetMin(S) == CHOOSE x \in S : \A y \in S : x <= y

Covers(b, tick) == b.tick_lower <= tick /\ tick < b.tick_upper

\* C1: the returned band table, read in its (ascending tick_lower) order, has
\* tick_lower < tick_upper in every band and every band's tick_upper equal to
\* the next band's tick_lower.
C1_Contiguous ==
    (Returned /\ TickSet # {}) =>
        /\ \A k \in 1..Len(bands) : bands[k].tick_lower < bands[k].tick_upper
        /\ \A k \in 1..(Len(bands) - 1) :
              bands[k].tick_upper = bands[k + 1].tick_lower

\* A table with an upward walk, a bridge band and a downward walk.
C1_Witness ==
    /\ Returned
    /\ AboveSet # {}
    /\ Cardinality(BelowSet) >= 2
    /\ SetMax(BelowSet) < base_tick
    /\ Len(bands) >= 5

\* C2: a returned band that contains the current tick carries exactly the
\* pool's current liquidity.
C2_ActiveBandUnmodified ==
    Returned =>
        \A k \in 1..Len(bands) :
            Covers(bands[k], current_tick) =>
                bands[k].active_liquidity = slot.liquidity

\* A covering band exists although ticks on both sides carry deltas, the
\* current tick itself being initialized.
C2_Witness ==
    /\ Returned
    /\ \E k \in 1..Len(bands) : Covers(bands[k], current_tick)
    /\ current_tick \in TickSet
    /\ current_liquidity = 3

\* C3: every band emitted, at every step, has active_liquidity >= 0.
C3_NonNegative ==
    \A k \in 1..Len(bands) : bands[k].active_liquidity >= 0

\* The running sum is negative and the band just emitted carries 0.
C3_Witness ==
    /\ pc \in {"up", "down"}
    /\ i > 0
    /\ L < 0
    /\ bands[Len(bands)].active_liquidity = 0

\* C4: the band that starts at an initialized tick t above the current tick
\* carries max(0, current + the deltas of the ticks above up to t); the band
\* that ends at an initialized tick t at or below the current tick carries
\* max(0, current - the deltas of the ticks from t up to the current tick);
\* and two bands meeting at an initialized tick differ by that tick's delta
\* when neither was clamped.
RawAt(t) ==
    IF t > current_tick
    THEN current_liquidity + SumNet({u \in AboveSet : u <= t})
    ELSE current_liquidity - SumNet({u \in BelowSet : u > t})
RawBelow(t) ==
    IF t > current_tick
    THEN current_liquidity + SumNet({u \in AboveSet : u < t})
    ELSE current_liquidity - SumNet({u \in BelowSet : u >= t})

C4_RunningSum ==
    Returned =>
        /\ \A t \in AboveSet :
              /\ Cardinality({k \in 1..Len(bands) : bands[k].tick_lower = t}) = 1
              /\ \A k \in 1..Len(bands) :
                    bands[k].tick_lower = t =>
                        bands[k].active_liquidity = Max(0, RawAt(t))
        /\ \A t \in BelowSet :
              /\ Cardinality({k \in 1..Len(bands) : bands[k].tick_upper = t}) = 1
              /\ \A k \in 1..Len(bands) :
                    bands[k].tick_upper = t =>
                        bands[k].active_liquidity = Max(0, RawBelow(t))
        /\ \A k \in 1..(Len(bands) - 1) :
              LET t == bands[k].tick_upper IN
              (t \in TickSet /\ bands[k + 1].tick_lower = t
                 /\ RawBelow(t) >= 0 /\ RawAt(t) >= 0) =>
                  bands[k + 1].active_liquidity - bands[k].active_liquidity
                      = chain_net[t]

\* A downward walk whose running sum went negative and came back above zero.
C4_Witness ==
    /\ Returned
    /\ Cardinality(BelowSet) >= 2
    /\ \E t \in BelowSet : RawBelow(t) < 0
    /\ \E t \in BelowSet : RawBelow(t) > 0 /\ \E u \in BelowSet : u > t /\ RawBelow(u) < 0

BridgeCase == BelowSet # {} /\ SetMax(BelowSet) < base_tick
BandsEndingAtBase == {k \in 1..Len(bands) : bands[k].tick_upper = base_tick}
WalkBands == Cardinality(AboveSet) + (IF AboveSet = {} THEN 0 ELSE 1)
             + Cardinality(BelowSet)

\* C5 as stated: the bridge band is [lowest_below, base_tick).
C5_BridgeFromLowest ==
    (Returned /\ BridgeCase) =>
        /\ Cardinality(BandsEndingAtBase) = 1
        /\ \A k \in BandsEndingAtBase :
              bands[k] = Band(SetMin(BelowSet), base_tick, current_liquidity)

\* C5 (amended): when ticks at or below the current tick exist and the highest
\* of them is below the base tick, exactly one bridge band is emitted, and it
\* is [highest_below, base_tick) with the unmodified current liquidity; when
\* a below tick equals the base tick no bridge band is emitted.
C5_BridgeFromHighest ==
    Returned =>
        /\ BridgeCase =>
              /\ Cardinality(BandsEndingAtBase) = 1
              /\ \A k \in BandsEndingAtBase :
                    bands[k] = Band(SetMax(BelowSet), base_tick, current_liquidity)
              /\ Len(bands) = WalkBands + 1
        /\ (BelowSet # {} /\ ~BridgeCase) => Len(bands) = WalkBands

\* A bridge band below which two more initialized ticks lie.
C5_Witness ==
    /\ Returned
    /\ BridgeCase
    /\ Cardinality(BelowSet) >= 2
    /\ current_liquidity = 3

AppliedBy(walk) == {applied[k][2] : k \in {j \in 1..Len(applied) : applied[j][1] = walk}}

\* C6: every initialized tick's delta is applied exactly once: by the upward
\* walk iff tick > current_tick, by the downward walk iff tick <= current_tick.
C6_AppliedOnce ==
    (Returned /\ TickSet # {}) =>
        /\ \A t \in TickSet :
              /\ Cardinality({k \in 1..Len(applied) : applied[k][2] = t}) = 1
              /\ (t \in AppliedBy("up")) <=> (t > current_tick)
              /\ (t \in AppliedBy("down")) <=> (t <= current_tick)
        /\ AppliedBy("up") \cup AppliedBy("down") \subseteq TickSet

\* The current tick is itself initialized and both walks ran.
C6_Witness ==
    /\ Returned
    /\ current_tick \in TickSet
    /\ AppliedBy("up") # {}
    /\ AppliedBy("down") # {}

\* C7: when the scan finds no initialized tick the function returns a table
\* with zero rows together with the snapshot, and no tick liquidity was
\* queried.
C7_EmptyResult ==
    /\ (pc = "scanned" /\ initialized_ticks = <<>>) => tick_queries = <<>>
    /\ (Returned /\ initialized_ticks = <<>>) =>
          /\ bands = <<>>
          /\ tick_queries = <<>>
          /\ slot = [tick |-> current_tick, liquidity |-> current_liquidity]

\* Returned with nothing found, one of the bitmap calls having raised.
C7_Witness ==
    /\ Returned
    /\ initialized_ticks = <<>>
    /\ \E w \in DOMAIN chain_bitmap : chain_bitmap[w] = RpcError
    /\ \E w \in DOMAIN chain_bitmap : chain_bitmap[w] = 0

---------------------------------------------------------------------------
\* Properties of the bitmap decoders.

\* Bit b of x is set: x = q * 2^(b+1) + 2^b + r with r < 2^b.
HasBit(x, b) ==
    \E q \in 0..x : \E r \in 0..(2^b - 1) : x = q * (2^(b + 1)) + 2^b + r

AnsweredWords == {w \in DOMAIN chain_bitmap : chain_bitmap[w] # RpcError}

ExpectedTicks ==
    {(w * 256 + b) * tick_spacing : <<w, b>> \in
        {wb \in AnsweredWords \X (0..(MaxBits - 1)) :
            HasBit(chain_bitmap[wb[1]], wb[2])}}

StrictlyAscending(s) == \A k \in 1..(Len(s) - 1) : s[k] < s[k + 1]

ExactDecoding(s) ==
    /\ StrictlyAscending(s)
    /\ Range(s) = ExpectedTicks
    /\ Len(s) = Cardinality(ExpectedTicks)
    /\ (\A w \in AnsweredWords : chain_bitmap[w] = 0) => s = <<>>

\* C8: both decoders return a strictly ascending list whose elements are
\* exactly the ticks (w*256 + b) * tick_spacing of the set bits of the words
\* answered: none missing, none added, none repeated; empty when all are zero.
C8_ExactDecoding ==
    /\ pc \in {"scanned", "parsed"} => ExactDecoding(initialized_ticks)
    /\ pc = "parsed" => ExactDecoding(parsed_ticks)

\* Both decoders ran over words at negative and positive positions with a
\* tick spacing above 1, one call having raised.
C8_Witness ==
    /\ pc = "parsed"
    /\ tick_spacing = 60
    /\ Len(parsed_ticks) >= 3
    /\ \E k \in 1..Len(parsed_ticks) : parsed_ticks[k] < 0
    /\ \E w \in DOMAIN chain_bitmap : chain_bitmap[w] = RpcError
    /\ \E w \in DOMAIN chain_bitmap : chain_bitmap[w] = 3

---------------------------------------------------------------------------
\* Properties of theoretical_v4_slippage.

SwapReturned == swap_pc = "done"
CoveringRows == {k \in 1..Len(df_liq) :
                    df_liq[k].tick_lower <= swap_current_tick
                    /\ swap_current_tick < df_liq[k].tick_upper}

\* C9, on the tables that hold a band containing the current tick: a trade
\* amount of 0 leaves the price at the spot price and returns a slippage of
\* exactly 0.
C9_ZeroAmountZeroSlippage ==
    (SwapReturned /\ amount_wei = 0 /\ CoveringRows # {}) =>
        /\ result = Float(0)
        /\ final_price = spot_price

\* C10: if no band of the table contains the current tick, the function
\* returns NaN for every amount and direction, never a number, and the band
\* walk is not entered.
C10_NoBandNaN ==
    (CoveringRows = {} /\ swap_pc \notin {"idle", "start"}) =>
        /\ SwapReturned
        /\ result = NaN
        /\ iterations = 0
        /\ remaining = ToFloat(amount_wei)

\* A non-empty table none of whose bands contains the current tick, and a
\* trade of a positive amount.
C10_Witness ==
    /\ SwapReturned
    /\ CoveringRows = {}
    /\ Len(df_liq) >= 2
    /\ amount_wei > 0
    /\ \E k \in 1..Len(df_liq) : df_liq[k].tick_upper = swap_current_tick

\* The band whose liquidity prices the step about to be taken, and what it
\* can absorb in the trade direction before the price reaches its boundary.
InLoop == swap_pc = "loop" /\ LoopCond
Capacity == IF zero_for_one THEN max_dx ELSE max_dy
FarBoundary == IF zero_for_one THEN sqrt_p_lower ELSE sqrt_p_upper
NeighbourTick == IF zero_for_one THEN band[1].tick_lower - 1
                 ELSE band[1].tick_upper
\* sp is not beyond the boundary b in the trade direction
NotBeyond(sp, b) == IF zero_for_one THEN sp >= b ELSE sp <= b

\* C11: every step of the walk absorbs at most the capacity of its band.  A
\* remainder within the capacity is absorbed whole and the price stays on the
\* near side of the band's far boundary; a remainder above the capacity
\* loses exactly the capacity, the price is set to the far boundary and the
\* lookup tick moves to the neighbouring band.  This includes a start at the
\* band's tick_lower, where the capacity of a token0-in trade is 0.
C11_WithinCapacity ==
    [][InLoop =>
          /\ (remaining - remaining') <= Max(Capacity, 0)
          /\ NotBeyond(sqrt_p', FarBoundary)
          /\ (remaining > Capacity) =>
                /\ remaining' = remaining - Capacity
                /\ sqrt_p' = FarBoundary
                /\ swap_tick' = NeighbourTick]_vars


\* A band of the table lies beyond the current band in the trade direction.
FurtherBand == band # <<>> /\ Lookup(df_liq, NeighbourTick) # <<>>

\* C12 as stated: a run that found a covering band returns only with the
\* amount exhausted or with no band beyond the last one in the trade
\* direction.
C12_TwoExits ==
    (SwapReturned /\ CoveringRows # {}) =>
        \/ remaining = 0
        \/ band = <<>>

\* C12, amended: a run that found a covering band returns only with the
\* amount exhausted, with no band beyond the last one in the trade
\* direction, or in a band whose liquidity is not positive (the starting
\* band or one the walk entered), whatever bands lie beyond it.
C12_ThreeExits ==
    (SwapReturned /\ CoveringRows # {}) =>
        \/ remaining = 0
        \/ band = <<>>
        \/ (band # <<>> /\ swap_L <= 0 /\ band[1].active_liquidity = swap_L)

\* The walk crossed into a band without liquidity and returned there with
\* part of the amount left, although a band with liquidity lies beyond.
C12_Witness ==
    /\ SwapReturned
    /\ iterations >= 1
    /\ remaining > 0
    /\ swap_L = 0
    /\ FurtherBand
    /\ Lookup(df_liq, NeighbourTick)[1].active_liquidity > 0

\* The walk the description prescribes, as functions of the inputs: from the
\* lookup tick t and sqrt-price sp, the bands met in the trade direction
\* while they carry liquidity.
CapacityOf(r, sp) ==
    IF zero_for_one
    THEN IF sp > SqrtPriceAt(r.tick_lower)
         THEN r.active_liquidity * (FInv(SqrtPriceAt(r.tick_lower)) - FInv(sp))
         ELSE 0
    ELSE IF SqrtPriceAt(r.tick_upper) > sp
         THEN r.active_liquidity * (SqrtPriceAt(r.tick_upper) - sp)
         ELSE 0
BoundaryOf(r) == IF zero_for_one THEN SqrtPriceAt(r.tick_lower)
                 ELSE SqrtPriceAt(r.tick_upper)
NeighbourOf(r) == IF zero_for_one THEN r.tick_lower - 1 ELSE r.tick_upper

\* what the reachable bands can absorb together
RECURSIVE ReachCapacity(_, _)
ReachCapacity(t, sp) ==
    LET b == Lookup(df_liq, t)
    IN  IF b = <<>> THEN 0
        ELSE IF b[1].active_liquidity <= 0 THEN 0
        ELSE CapacityOf(b[1], sp)
                + ReachCapacity(NeighbourOf(b[1]), BoundaryOf(b[1]))

\* the reachable bands end where the table has no band (not at a band
\* without liquidity)
RECURSIVE EndsAtEdge(_)
EndsAtEdge(t) ==
    LET b == Lookup(df_liq, t)
    IN  IF b = <<>> THEN TRUE
        ELSE IF b[1].active_liquidity <= 0 THEN FALSE
        ELSE EndsAtEdge(NeighbourOf(b[1]))

\* the far boundary of the last reachable band
RECURSIVE EdgeBoundary(_)
EdgeBoundary(t) ==
    LET b == Lookup(df_liq, t)
    IN  IF Lookup(df_liq, NeighbourOf(b[1])) = <<>> THEN BoundaryOf(b[1])
        ELSE EdgeBoundary(NeighbourOf(b[1]))

Exhausting ==
    /\ CoveringRows # {}
    /\ EndsAtEdge(swap_current_tick)
    /\ ToFloat(amount_wei) >
          ReachCapacity(swap_current_tick, SqrtPriceAt(swap_current_tick))

\* C13: a trade above the combined capacity of the bands reachable in its
\* direction, where no band lies beyond them, returns with the sqrt-price at
\* the far boundary of the last band, with the unfilled remainder dropped,
\* and with the slippage of that boundary, whatever the amount.
C13_ExhaustedAtBoundary ==
    (SwapReturned /\ Exhausting) =>
        /\ sqrt_p = EdgeBoundary(swap_current_tick)
        /\ remaining =
              ToFloat(amount_wei)
                 - ReachCapacity(swap_current_tick,
                                 SqrtPriceAt(swap_current_tick))
        /\ result = Float(Slippage(TickPrice(swap_current_tick),
                             FinalPrice(EdgeBoundary(swap_current_tick))))

\* The run started in a band with liquidity and trades a positive amount.
Trading ==
    /\ CoveringRows # {}
    /\ Lookup(df_liq, swap_current_tick)[1].active_liquidity > 0
    /\ amount_wei > 0
\* sp lies strictly on the trade's side of the sqrt-price at tick t
StrictlyPast(sp, t) == IF zero_for_one THEN sp < SqrtPriceAt(t)
                       ELSE sp > SqrtPriceAt(t)

\* C14: with liquidity in the starting band and an amount > 0, no step moves
\* the sqrt-price against the trade direction, and the run returns with the
\* sqrt-price strictly below the starting one for token0-in, strictly above
\* it for token1-in, and with a slippage > 0.
C14_MovesWithTrade ==
    [][/\ InLoop => NotBeyond(sqrt_p, sqrt_p')
       /\ (swap_pc' = "done" /\ Trading) =>
             /\ StrictlyPast(sqrt_p', swap_current_tick)
             /\ result'.value > 0]_vars

---------------------------------------------------------------------------
\* Properties of two simulations on one table.

BothReturned == swap_pc = "done" /\ other.swap_pc = "done"
\* The band the two trades start in, and what it can absorb from the start.
StartBand == Lookup(df_liq, swap_current_tick)[1]
StartCapacity == CapacityOf(StartBand, SqrtPriceAt(swap_current_tick))
\* Both trades stay within the starting band, which has liquidity.
BothFit ==
    /\ CoveringRows # {}
    /\ StartBand.active_liquidity > 0
    /\ ToFloat(amount_wei) <= StartCapacity
    /\ ToFloat(other.amount_wei) <= StartCapacity
\* The frame f ends further from the spot price than the frame g.
Further(f, g) ==
    /\ Abs(f.spot_price - f.final_price) > Abs(g.spot_price - g.final_price)
    /\ f.result.value > g.result.value

\* C15: of two trades in the same direction that both fit within the
\* capacity of the starting band, the larger one ends strictly further from
\* the spot price and has the strictly larger slippage.
C15_StrictlyMonotonic ==
    (BothReturned /\ BothFit) =>
        /\ (amount_wei < other.amount_wei) => Further(other, Locals)
        /\ (other.amount_wei < amount_wei) => Further(Locals, other)

---------------------------------------------------------------------------
\* Termination of theoretical_v4_slippage.

\* swap_tick has moved strictly further in the trade direction
TickAdvanced == IF zero_for_one THEN swap_tick' < swap_tick
                ELSE swap_tick' > swap_tick

\* C16: for every table (empty, single band, with gaps, overlapping), amount
\* >= 0 and direction, the function returns; every loop iteration either
\* sets the remaining amount to zero or moves the lookup tick strictly
\* further in the trade direction, and the number of iterations is at most
\* the number of bands plus one.
C16_Terminates ==
    /\ <>SwapReturned
    /\ [](~SwapReturned => ENABLED NextSwap)
    /\ [](iterations <= Len(df_liq) + 1)
    /\ [][InLoop => (remaining' = 0 \/ TickAdvanced)]_vars

\* A walk over a table with overlapping bands that crossed two of them and
\* ran out of bands with part of the amount left.
C16_Witness ==
    /\ SwapReturned
    /\ Len(df_liq) = 3
    /\ iterations = 2
    /\ remaining > 0
    /\ \E k \in 1..2 : df_liq[k].tick_upper > df_liq[k + 1].tick_lower

---------------------------------------------------------------------------
\* Zero liquidity.

\* C17: a loop iteration (each divides by L) is entered only with L > 0; a
\* start in a band without liquidity returns a slippage of 0 without
\* entering the loop, for every amount and direction; a walk that enters a
\* band without liquidity returns there, with the slippage of the price it
\* had reached.
C17_ZeroLiquidity ==
    [][/\ (iterations' > iterations) => swap_L > 0
       /\ (swap_pc' = "done" /\ CoveringRows # {}
             /\ StartBand.active_liquidity = 0) =>
                /\ iterations' = 0
                /\ result' = Float(0)
       /\ (swap_pc' = "done" /\ iterations' >= 1 /\ band' # <<>>
             /\ swap_L' = 0) =>
                /\ remaining' > 0
                /\ sqrt_p' = sqrt_p
                /\ result' = Float(Slippage(spot_price, FinalPrice(sqrt_p)))]_vars

---------------------------------------------------------------------------
\* The simulation as a function of its four arguments.

\* the sqrt-price a trade of rem ends at, from lookup tick t and sqrt-price
\* sp, on the table df_liq; t lies in a band
RECURSIVE WalkFrom(_, _, _)
WalkFrom(t, sp, rem) ==
    LET r == Lookup(df_liq, t)[1]
        liq == r.active_liquidity
        cap == CapacityOf(r, sp)
    IN  IF ~(rem > 0 /\ liq > 0) THEN sp
        ELSE IF rem <= cap \/ cap <= 0
             THEN IF zero_for_one THEN FInv(FInv(sp) + (rem \div liq))
                  ELSE sp + (rem \div liq)
        ELSE IF Lookup(df_liq, NeighbourOf(r)) = <<>> THEN BoundaryOf(r)
        ELSE WalkFrom(NeighbourOf(r), BoundaryOf(r), FSub(rem, cap))

\* what one call returns for the amount a when nothing else runs
AloneResult(a) ==
    IF CoveringRows = {} THEN NaN
    ELSE Float(Slippage(TickPrice(swap_current_tick),
                 FinalPrice(WalkFrom(swap_current_tick,
                                     SqrtPriceAt(swap_current_tick),
                                     ToFloat(a)))))

\* C18: no step of a simulation changes the band table it was given, on any
\* path, and each of two simulations on one table, run one after the other
\* or interleaved step by step, returns what the function of (amount,
\* direction, current tick, table) gives for it alone.
C18_TableUnchanged ==
    /\ [][df_liq' = df_liq]_vars
    /\ [](swap_pc = "done" => result = AloneResult(amount_wei))
    /\ [](other.swap_pc = "done" => other.result = AloneResult(other.amount_wei))

\* One simulation has returned after crossing a band while the other, for a
\* different amount, is inside its walk and has crossed a band too.
C18_Witness ==
    /\ swap_pc = "done"
    /\ iterations >= 2
    /\ other.swap_pc = "loop"
    /\ other.iterations >= 1
    /\ other.remaining > 0
    /\ other.amount_wei # amount_wei

---------------------------------------------------------------------------
\* Properties of calculate_tvl_from_ticks.

TvlReturned == tvl_pc = "done"
\* The band b and the range r share ticks.
Overlap(b, r) == b.tick_lower < r.tick_high /\ r.tick_low < b.tick_upper
\* The liquidity the aggregator converts for the range r: the running sum
\* where it is > 0, nothing otherwise.
Converted(r) == Max(r.liquidity, 0)
\* What the found net deltas at or below the current tick add up to, and how
\* far the pool's reported liquidity is from it.
Anchor == current_liquidity - SumNet(BelowSet)

\* C19 as stated: for every range between two adjacent initialized ticks the
\* aggregator converts the active liquidity that the reconstructor, on the
\* same pool, gives the bands covering that range.
C19_SameLiquidity ==
    (Returned /\ TvlReturned) =>
        \A k \in 1..Len(ranges) : \A j \in 1..Len(bands) :
            Overlap(bands[j], ranges[k]) =>
                bands[j].active_liquidity = Converted(ranges[k])

\* C19, amended: the reconstructor's liquidity for the bands covering a
\* range is the aggregator's running sum shifted by the difference between
\* the pool's current liquidity and the sum of the found deltas at or below
\* the current tick, then clamped; the two agree where that difference is 0.
C19_SameUpToAnchor ==
    (Returned /\ TvlReturned) =>
        \A k \in 1..Len(ranges) : \A j \in 1..Len(bands) :
            Overlap(bands[j], ranges[k]) =>
                /\ bands[j].active_liquidity
                      = Max(ranges[k].liquidity + Anchor, 0)
                /\ (Anchor = 0) =>
                      bands[j].active_liquidity = Converted(ranges[k])

\* A pool whose current liquidity is the sum of the deltas at or below the
\* current tick, with initialized ticks on both sides of it and liquidity in
\* a range above it.
C19_Witness ==
    /\ Returned /\ TvlReturned
    /\ Anchor = 0
    /\ current_liquidity > 0
    /\ Len(ranges) >= 2
    /\ BelowSet # {}
    /\ \E k \in 1..Len(ranges) : \E j \in 1..Len(bands) :
          /\ Overlap(bands[j], ranges[k])
          /\ ranges[k].tick_low > current_tick
          /\ bands[j].active_liquidity > 0

\* The sqrt prices of the bounds of the range r.
LowOf(r) == tick_to_sqrt_price(r.tick_low)
HighOf(r) == tick_to_sqrt_price(r.tick_high)

\* C20: the totals are never negative, whatever the signs of the deltas; for
\* a pool with a single range and the current price strictly inside it, both
\* totals are > 0 exactly when the liquidity of the range is > 0, and both
\* are 0 when it is 0 or negative; a range that lies entirely below the
\* current price adds no token0 and one entirely above it adds no token1.
C20_Amounts ==
    /\ total_amount0 >= 0
    /\ total_amount1 >= 0
    /\ TvlReturned =>
          /\ (Len(ranges) = 1 /\ Len(sorted_ticks) = 2
                /\ LowOf(ranges[1]) < sqrt_price_current
                /\ sqrt_price_current < HighOf(ranges[1])) =>
                   /\ (ranges[1].liquidity > 0) =>
                         (total_amount0 > 0 /\ total_amount1 > 0)
                   /\ (ranges[1].liquidity <= 0) =>
                         (total_amount0 = 0 /\ total_amount1 = 0)
          /\ \A k \in 1..Len(ranges) :
                /\ (HighOf(ranges[k]) <= sqrt_price_current) =>
                      ranges[k].amount0 = 0
                /\ (LowOf(ranges[k]) >= sqrt_price_current) =>
                      ranges[k].amount1 = 0

\* A single range with liquidity and the price strictly inside it has been
\* converted into both tokens.
C20_Witness ==
    /\ TvlReturned
    /\ Len(sorted_ticks) = 2
    /\ LowOf(ranges[1]) < sqrt_price_current
    /\ sqrt_price_current < HighOf(ranges[1])
    /\ ranges[1].liquidity > 0
    /\ total_amount0 > 0
    /\ total_amount1 > 0


---------------------------------------------------------------------------
\* Properties of the fetchers on a moving chain.

BatchReturned == pc = "v4data"
\* The tick and liquidity of the snapshot handed to the caller.
Snapshot == [tick |-> current_tick, liquidity |-> current_liquidity]

\* C21: when fetch_liquidity_distribution or fetch_all_v4_data_sync has
\* returned, the tick and the liquidity of its snapshot are those of one and
\* the same state the pool was in while the fetch ran.
C21_SingleState ==
    (Returned \/ BatchReturned) => Snapshot \in chain_history

\* C22: when fetch_all_v4_data_sync has returned, the keys of tick_liquidity
\* are exactly the ticks of initialized_ticks.
C22_EveryTickHasEntry ==
    BatchReturned => DOMAIN tick_liquidity = Range(initialized_ticks)


---------------------------------------------------------------------------
\* Properties of the historical slippage functions.

\* The entries that carry a gross slippage, each with the lp_fee of its block:
\* the dict calculate_v4_slippage_at_block returned, and the trade entries of
\* the block dicts of batch_v4_slippage_at_blocks.
GrossEntries ==
    (IF "gross_slippage_pct" \in DOMAIN at_block
     THEN {<<at_block, at_block.lp_fee>>} ELSE {})
    \cup
    {<<d.trades[a], d.lp_fee>> :
        <<d, a>> \in
            {da \in ({results[k] : k \in 1..Len(results)}
                        \cup (IF hist_pc = "trades" THEN {block_result} ELSE {}))
                    \X Range(trade_amounts_wei) :
                /\ "trades" \in DOMAIN da[1]
                /\ da[2] \in DOMAIN da[1].trades
                /\ "gross_slippage_pct" \in DOMAIN da[1].trades[da[2]]}}

\* C23: every gross_slippage_pct is max(net_slippage_pct - lp_fee /
\* 1_000_000 * 100, 0): not negative, not above net_slippage_pct, and 0
\* whenever the fee percentage is at least the net slippage.
C23_GrossFloored ==
    \A ef \in GrossEntries :
        LET e == ef[1]
            fee_pct_100 == FeePct(ef[2]) * 100
        IN  /\ e.gross_slippage_pct = Max(e.net_slippage_pct - fee_pct_100, 0)
            /\ e.gross_slippage_pct >= 0
            /\ e.gross_slippage_pct <= e.net_slippage_pct
            /\ (fee_pct_100 >= e.net_slippage_pct => e.gross_slippage_pct = 0)

\* The batch has returned a block whose two trades lie on either side of the
\* fee: one floored to 0 under a positive net slippage, one above 0.
C23_Witness ==
    /\ hist_pc = "returned"
    /\ \E k \in 1..Len(results) :
         /\ "trades" \in DOMAIN results[k]
         /\ results[k].lp_fee > 0
         /\ \E a, b \in DOMAIN results[k].trades :
              /\ "gross_slippage_pct" \in DOMAIN results[k].trades[a]
              /\ "gross_slippage_pct" \in DOMAIN results[k].trades[b]
              /\ results[k].trades[a].gross_slippage_pct = 0
              /\ results[k].trades[a].net_slippage_pct > 0
              /\ results[k].trades[b].gross_slippage_pct > 0


---------------------------------------------------------------------------
\* Properties of the pure helpers.

BreakevenReturned ==
    called = "find_breakeven_trade_size" /\ call_pc = "returned"

\* V4 is cheaper at every size (v2 - v4 > 0 throughout), or more expensive at
\* every size (v2 - v4 < 0 throughout).
AlwaysOneSided ==
    LET d == Diffs(v2_net_avgs, v4_net_avgs)
    IN  \/ \A k \in DOMAIN d : d[k] > 0
        \/ \A k \in DOMAIN d : d[k] < 0

\* C24: find_breakeven_trade_size returns None exactly when V4 is always
\* cheaper or always more expensive across the sizes; otherwise it returns a
\* size between the two neighbouring sizes of the first change of sign of
\* v2 - v4.
C24_NoneIffOneSided ==
    BreakevenReturned =>
        /\ (breakeven = None) <=> AlwaysOneSided
        /\ breakeven # None =>
             \E k \in 1..(Len(sizes_usd) - 1) :
                /\ Min(sizes_usd[k], sizes_usd[k + 1]) * Precision
                       <= breakeven.value
                /\ breakeven.value
                       <= Max(sizes_usd[k], sizes_usd[k + 1]) * Precision


SummaryReturned ==
    called = "compute_net_slippage_summary" /\ call_pc = "returned"

\* The indices of the results that count for an amount: no top-level error,
\* and the entry of the amount (under the integer key unless that one is
\* missing or empty, else under the string key) has a gross slippage and no
\* error.
ValidResults(rs, amt) ==
    {k \in 1..Len(rs) :
        /\ "error" \notin DOMAIN rs[k]
        /\ "trades" \in DOMAIN rs[k]
        /\ \E key \in {IntKey(amt), StrKey(amt)} :
             /\ key \in DOMAIN rs[k].trades
             /\ key = StrKey(amt) =>
                    \/ IntKey(amt) \notin DOMAIN rs[k].trades
                    \/ DOMAIN rs[k].trades[IntKey(amt)] = {}
             /\ "gross_slippage_pct" \in DOMAIN rs[k].trades[key]
             /\ "error" \notin DOMAIN rs[k].trades[key]}

\* The gross slippage a valid result carries for an amount.
GrossOf(r, amt) ==
    IF /\ IntKey(amt) \in DOMAIN r.trades
       /\ "gross_slippage_pct" \in DOMAIN r.trades[IntKey(amt)]
    THEN r.trades[IntKey(amt)].gross_slippage_pct
    ELSE r.trades[StrKey(amt)].gross_slippage_pct

RECURSIVE SumGross(_, _, _)
SumGross(rs, amt, V) ==
    IF V = {} THEN 0
    ELSE LET k == CHOOSE x \in V : TRUE
         IN  GrossOf(rs[k], amt) + SumGross(rs, amt, V \ {k})

\* avg is the mean, cut to the grid, of the valid results; 0.0 without any
IsAverage(avg, rs, amt) ==
    LET V == ValidResults(rs, amt)
    IN  IF V = {} THEN avg = 0
        ELSE /\ avg * Cardinality(V) <= SumGross(rs, amt, V)
             /\ SumGross(rs, amt, V) < (avg + 1) * Cardinality(V)

\* C25: per trade size the gross averages are the means over exactly the
\* valid results, 0.0 when none is valid, and each net average is the gross
\* average plus the venue's fee.
C25_AveragesOverValid ==
    SummaryReturned =>
        /\ Len(rows) = Len(sizes_usd)
        /\ \A k \in 1..Len(rows) :
             /\ rows[k].size_usd = sizes_usd[k]
             /\ IsAverage(rows[k].v2_gross_avg, v2_results, v2_amounts[k])
             /\ IsAverage(rows[k].v4_gross_avg, v4_results, v4_amounts[k])
             /\ rows[k].v2_net_avg = rows[k].v2_gross_avg + v2_fee_pct
             /\ rows[k].v4_net_avg = rows[k].v4_gross_avg + v4_fee_pct

\* A summary over two V4 results, one with an error and one valid under the
\* string key, and a second size for which nothing is valid.
C25_Witness ==
    /\ SummaryReturned
    /\ Len(v4_results) = 2
    /\ "error" \in DOMAIN v4_results[1]
    /\ ValidResults(v4_results, 2000) = {2}
    /\ StrKey(2000) \in DOMAIN v4_results[2].trades
    /\ Len(rows) = 2
    /\ rows[2].v4_gross_avg = 30000
    /\ rows[1].v4_gross_avg = 0
    /\ rows[1].v2_gross_avg = 10000


DecomposeReturned ==
    called = "decompose_vault_returns" /\ call_pc = "returned"

\* C26: one entry per index, with total_lp_effect = il_fullrange +
\* management_premium = vault[i] - hodl[i] and hodl[0] + price_return +
\* il_fullrange + management_premium = vault[i], the sums and differences
\* being those of floats.
C26_Identities ==
    DecomposeReturned =>
        /\ Len(decomposition) = Len(vault_usd)
        /\ \A k \in 1..Len(decomposition) :
             LET d == decomposition[k]
             IN  /\ d.total_lp_effect
                        = FAdd(d.il_fullrange, d.management_premium)
                 /\ d.total_lp_effect = FSub(vault_usd[k], hodl_usd[k])
                 /\ FAdd(FAdd(FAdd(hodl_usd[1], d.price_return),
                              d.il_fullrange), d.management_premium)
                        = vault_usd[k]



SearchReturned == called \in SearchNames /\ call_pc = "returned"

\* C29: for search_start <= search_end and a value that stays non-zero once
\* it is, each of the two searches returns a block of the range at which the
\* value is non-zero and before which, within the range, it is zero.
C29_FirstNonzero ==
    (SearchReturned /\ search_start <= search_end /\ StaysNonzero(chain_nonzero)) =>
        /\ found \in search_start..search_end
        /\ found \in chain_nonzero
        /\ \A b \in search_start..(found - 1) : b \notin chain_nonzero


\* C30: for every start_block and end_block the call returns a strictly
\* ascending list that starts at start_block, ends at end_block and has
\* consecutive blocks at most BLOCKS_PER_DAY apart.
C30_DailySamples ==
    (called = "generate_daily_block_samples" /\ call_pc # "called") =>
        /\ call_pc = "returned"
        /\ samples # <<>>
        /\ samples[1] = start_block
        /\ samples[Len(samples)] = end_block
        /\ \A k \in 1..(Len(samples) - 1) :
             /\ samples[k] < samples[k + 1]
             /\ samples[k + 1] - samples[k] <= BLOCKS_PER_DAY

---------------------------------------------------------------------------
\* Properties of the swap on the fetched table.

\* C27: when at least one initialized tick was found, the returned table has
\* exactly one band with tick_lower <= current_tick < tick_upper, and the
\* swap started at the snapshot's tick on it does not return NaN for want of a
\* covering band.
C27_OneCoveringBand ==
    (Returned /\ initialized_ticks # <<>>) =>
        /\ Len(Lookup(bands, slot.tick)) = 1
        /\ swap_pc \notin {"idle", "start"} => result # NaN


---------------------------------------------------------------------------
\* The accounting of the amount in theoretical_v4_slippage.

\* The step about to be taken crosses into the neighbouring band.
Crossing == ~(remaining <= Capacity \/ Capacity <= 0)

=============================================================================
